---- MODULE Spec2Model ----
(***************************************************************************)
(* A model of the vdev label and uberblock code of libzpool                *)
(* (src/lib/libzpool/vdev_label.c): label geometry, the label reader and   *)
(* in-use probe, the label initializer, the uberblock loader and the       *)
(* ordered label/uberblock sync.                                           *)
(*                                                                         *)
(* Devices have a volatile write cache: a write that completed without     *)
(* error sits in the cache until DKIOCFLUSHWRITECACHE reaches the device;  *)
(* a read sees the cache over the platter; a crash keeps any subset of the *)
(* cached writes.                                                          *)
(***************************************************************************)
EXTENDS Integers, Sequences, FiniteSets, Bags, TLC

(***************************************************************************)
(* Program constants.                                                      *)
(***************************************************************************)
VDEV_LABELS == 4

\* The ring of uberblock cells of one label.  The source's count is a power
\* of two (128 for 1K cells); the model keeps the smallest ring with more
\* than one cell.
VDEV_UBERBLOCK_COUNT == 2

UBERBLOCK_MAGIC == 12235020

POOL_STATE_ACTIVE == 0
POOL_STATE_EXPORTED == 1
POOL_STATE_SPARE == 3

EIO == 5
EFAULT == 14
EBUSY == 16
ENODEV == 19
EINVAL == 22
ENAMETOOLONG == 36

\* A key that a property tree does not hold.
Absent == -1

(***************************************************************************)
(* Bounds of the model.                                                    *)
(***************************************************************************)
\* uint64_t is modelled on WordBits bits, sizeof (vdev_label_t) as
\* LabelSize bytes.
WordBits == 6
LabelSize == 4
\* The largest txg and timestamp of the uberblocks the loader is given.
MaxLoadTxg == 2
MaxTimestamp == 2
\* The txg the pool was last synced in when vdev_config_sync is entered.
StartTxg == 1
\* Guids and their sums are modelled on GuidBits bits.
GuidBits == 12
\* The vdev_sync_labels of one vdev_config_sync that are given failing writes.
MaxLabelFaults == 2
\* The number of vdev_label_init calls in one run.
MaxInitCalls == 2

Word == 2 ^ WordBits
GuidWord == 2 ^ GuidBits

Slots == 0 .. (VDEV_LABELS - 1)
Cells == 0 .. (VDEV_UBERBLOCK_COUNT - 1)

(***************************************************************************)
(* The vdev tree: a root with two top-level vdevs, a two-way mirror M of   *)
(* the leaves A and B, and the single-disk top-level C.                    *)
(***************************************************************************)
Root == "root"
Leaves == {"A", "B", "C"}
Tops == {"M", "C"}
Nodes == {"root", "M", "A", "B", "C"}
Devices == {"d1", "d2", "d3"}

vdev_child(vd) ==
    CASE vd = "root" -> <<"M", "C">>
      [] vd = "M" -> <<"A", "B">>
      [] OTHER -> <<>>

vdev_parent(vd) ==
    CASE vd = "M" -> "root"
      [] vd = "C" -> "root"
      [] vd = "A" -> "M"
      [] vd = "B" -> "M"
      [] OTHER -> "none"

vdev_top(vd) ==
    CASE vd = "A" -> "M"
      [] vd = "B" -> "M"
      [] vd = "M" -> "M"
      [] vd = "C" -> "C"
      [] OTHER -> "none"

vdev_op_leaf(vd) == vd \in Leaves

RECURSIVE LeafSeqOfChildren(_, _)
\* The leaves under vd in the order the recursive walks over vdev_child
\* visit them.
LeafSeq(vd) ==
    IF vdev_op_leaf(vd) THEN <<vd>> ELSE LeafSeqOfChildren(vdev_child(vd), 1)

LeafSeqOfChildren(ch, c) ==
    IF c > Len(ch) THEN <<>>
    ELSE LeafSeq(ch[c]) \o LeafSeqOfChildren(ch, c + 1)

Range(s) == {s[i] : i \in 1 .. Len(s)}

LeavesUnder(vd) == Range(LeafSeq(vd))

VARIABLES
    \* the vdev tree and the pool
    vdev_guid, vdev_guid_sum, dead, devOf, vdev_isspare, vdev_islog,
    vdev_ms_array, spa_uberblock, spa_dirty_list, spa_spare_avl, spa_spares,
    other_pools,
    \* the devices: platter and write cache, and the injected faults
    phys, boot, ubring, c_phys, c_boot, c_ub, c_data, readErr, packErr,
    \* vdev_label_offset
    geom,
    \* vdev_inuse
    inuse,
    \* vdev_label_init
    init,
    \* vdev_uberblock_load
    ubbest, load_pending, load,
    \* vdev_config_sync: its locals, the I/O it has issued so far, the
    \* state it was entered in, and the wall clock
    sync, hist, pre, clock,
    \* the two-run experiment: the state both runs start from and the result
    \* of the reference run
    snap,
    \* vdev_label_read_config: the leaf, the reads issued, the tree returned
    readcfg

treeVars == <<vdev_guid, vdev_guid_sum, dead, devOf, vdev_isspare,
              vdev_islog, vdev_ms_array>>
spaVars == <<spa_uberblock, spa_dirty_list, spa_spare_avl, spa_spares,
             other_pools>>
diskVars == <<phys, boot, ubring, c_phys, c_boot, c_ub, c_data>>
faultVars == <<readErr, packErr>>
loadVars == <<ubbest, load_pending, load>>
syncVars == <<sync, hist, pre, clock, snap>>

vars == <<vdev_guid, vdev_guid_sum, dead, devOf, vdev_isspare, vdev_islog,
          vdev_ms_array, spa_uberblock, spa_dirty_list, spa_spare_avl,
          spa_spares, other_pools, phys, boot, ubring, c_phys, c_boot, c_ub,
          c_data, readErr, packErr, geom, inuse, init, ubbest, load_pending, load,
          sync, hist, pre, clock, snap, readcfg>>

(***************************************************************************)
(* Contents of a device.                                                   *)
(***************************************************************************)
\* A vdev phys region that does not unpack.
NoLabel ==
    [ok |-> FALSE, state |-> Absent, guid |-> Absent, pool_guid |-> Absent,
     txg |-> Absent, crtxg |-> Absent]

NoBoot == [magic |-> "0", version |-> "0", offset |-> "0", size |-> "0"]

\* A zeroed uberblock cell.
ZeroUb == [txg |-> 0, ts |-> 0, magic |-> 0]

DefaultGuid == [vd \in Nodes |->
    CASE vd = "A" -> 100 [] vd = "B" -> 200 [] vd = "C" -> 400
      [] vd = "M" -> 300 [] OTHER -> 1000]

RECURSIVE GuidSumOfChildren(_, _, _)
\* vdev_guid_sum as the tree builds it: the vdev's guid plus its children's
\* sums.
GuidSum(g, vd) == (g[vd] + GuidSumOfChildren(g, vdev_child(vd), 1)) % GuidWord

GuidSumOfChildren(g, ch, c) ==
    IF c > Len(ch) THEN 0
    ELSE (GuidSum(g, ch[c]) + GuidSumOfChildren(g, ch, c + 1)) % GuidWord

DefaultDevOf == [vd \in Leaves |->
    CASE vd = "A" -> "d1" [] vd = "B" -> "d2" [] OTHER -> "d3"]

\* This pool's guid, the guid of another pool this host knows, and the guid
\* of a pool it does not; a device guid that is in no tree.
spa_guid == 7
OtherPool == 8
UnknownPool == 9
OtherGuid == 500

TreeDefault ==
    /\ vdev_guid = DefaultGuid
    /\ vdev_guid_sum = [vd \in Nodes |-> GuidSum(DefaultGuid, vd)]
    /\ dead = {}
    /\ devOf = DefaultDevOf
    /\ vdev_isspare = [vd \in Leaves |-> FALSE]
    /\ vdev_islog = [vd \in Tops |-> FALSE]
    /\ vdev_ms_array = [vd \in Tops |-> 1]

SpaDefault ==
    /\ spa_uberblock = [txg |-> 0, ts |-> 0, magic |-> UBERBLOCK_MAGIC]
    /\ spa_dirty_list = <<>>
    /\ spa_spare_avl = {}
    /\ spa_spares = {}
    /\ other_pools = {}

CacheEmpty ==
    /\ c_phys = [d \in Devices |-> [l \in Slots |-> {}]]
    /\ c_boot = [d \in Devices |-> [l \in Slots |-> {}]]
    /\ c_ub = [d \in Devices |-> [l \in Slots |-> [n \in Cells |-> {}]]]
    /\ c_data = {}

DiskBlank ==
    /\ phys = [d \in Devices |-> [l \in Slots |-> NoLabel]]
    /\ boot = [d \in Devices |-> [l \in Slots |-> NoBoot]]
    /\ ubring = [d \in Devices |-> [l \in Slots |-> [n \in Cells |-> ZeroUb]]]
    /\ CacheEmpty

NoFaults ==
    /\ readErr = {}
    /\ packErr = [vd \in Leaves |-> 0]

\* What a read of a location returns: the cached write, if any, over the
\* platter.
Cached(c, onDisk) == IF c = {} THEN onDisk ELSE CHOOSE v \in c : TRUE

ViewPhys(d, l) == Cached(c_phys[d][l], phys[d][l])
ViewBoot(d, l) == Cached(c_boot[d][l], boot[d][l])
ViewUb(d, l, n) == Cached(c_ub[d][l][n], ubring[d][l][n])

\* The operations not under study are at rest.
InuseIdle ==
    inuse = [pc |-> "idle", reason |-> "CREATE", crtxg |-> 0, label |-> NoLabel,
             busy |-> FALSE, spare_guid |-> 0]

\* What a read that has not been issued has returned.
NoRead == [io_error |-> 0, label |-> NoLabel]

\* The frame of vdev_label_read_config when no call is in progress.
NoReadFrame ==
    [pc |-> "idle", vd |-> "A", l |-> 0, got |-> NoRead, reads |-> <<>>,
     config |-> NoLabel]

ReadIdle == readcfg = NoReadFrame

\* The frame of vdev_label_init before any call; debug says whether the
\* build evaluates ASSERT.
InitFrame(debug) ==
    [pc |-> "idle", vd |-> Root, crtxg |-> 0, reason |-> "CREATE",
     todo |-> <<>>, ret |-> 0, calls |-> 0, trace |-> <<>>,
     spare_guid |-> 0, werr |-> 0, debug |-> debug,
     pre |-> [guid |-> DefaultGuid, guid_sum |-> DefaultGuid, avl |-> {}]]

InitIdle == init = InitFrame(FALSE)

SyncLocalsIdle ==
    /\ sync = [pc |-> "idle", uvd |-> Root, txg |-> 0, i |-> 1, l |-> 1,
               good_writes |-> 0, last_error |-> 0, error |-> 0, retry_avail |-> TRUE,
               ret |-> 0, clean |-> {}, ub_unflushed |-> {},
               ub_leaves |-> {}, even_gw |-> <<>>,
               lab_ok |-> [even |-> {}, odd |-> {}], faulted |-> FALSE,
               nfaults |-> 0,
               batch |-> [vd |-> Root, error |-> 0, written |-> {},
                          submitted |-> {}]]
    /\ hist = <<>>
    /\ pre = [spa_ub |-> ZeroUb, dirty |-> <<>>]

SyncIdle ==
    /\ SyncLocalsIdle
    /\ snap = [mode |-> "off", phys |-> <<>>, ub |-> <<>>, ret |-> 0]

(***************************************************************************)
(* vdev_label_offset                                                       *)
(***************************************************************************)
\* The slot test off by one: slot 2 placed with the leading labels.
vdev_label_offset_le(psize, l, offset) ==
    (offset + l * LabelSize +
        (IF l <= VDEV_LABELS \div 2 THEN 0
         ELSE psize - VDEV_LABELS * LabelSize)) % Word

vdev_label_offset(psize, l, offset) ==
    (offset + l * LabelSize +
        (IF l < VDEV_LABELS \div 2 THEN 0
         ELSE psize - VDEV_LABELS * LabelSize)) % Word

GeomIdle ==
    geom = [psize |-> 0, offset |-> 0, out |-> [l \in Slots |-> Absent]]

\* The inputs the function's assertions admit: psize a multiple of the
\* label size, offset inside the label.
GeomInputs ==
    geom \in [psize : {p \in 0 .. (Word - 1) : p % LabelSize = 0},
              offset : 0 .. (LabelSize - 1),
              out : {[l \in Slots |-> Absent]}]

\* One call, for slot l of the device; out[l] keeps what it returned.
LabelOffset(l) ==
    /\ geom.out[l] = Absent
    /\ geom' = [geom EXCEPT
                  !.out[l] = vdev_label_offset(geom.psize, l, geom.offset)]
    /\ UNCHANGED <<treeVars, spaVars, diskVars, faultVars, readcfg, inuse, init,
                   loadVars, syncVars>>

(***************************************************************************)
(* vdev_uberblock_load: one read per cell of every label of every live     *)
(* leaf, all under one zio; the completions run in any order.  The reads   *)
(* outstanding are kept as a bag of what each will deliver.                *)
(***************************************************************************)
\* The comparison without its timestamp tie-break.
vdev_uberblock_compare_txg(ub1, ub2) ==
    IF ub1.txg < ub2.txg THEN -1
    ELSE IF ub1.txg > ub2.txg THEN 1
    ELSE 0

vdev_uberblock_compare(ub1, ub2) ==
    IF ub1.txg < ub2.txg THEN -1
    ELSE IF ub1.txg > ub2.txg THEN 1
    ELSE IF ub1.ts < ub2.ts THEN -1
    ELSE IF ub1.ts > ub2.ts THEN 1
    ELSE 0

uberblock_verify(ub) == IF ub.magic = UBERBLOCK_MAGIC THEN 0 ELSE EINVAL

\* The completion that keeps the uberblock read last.
vdev_uberblock_load_done_last(best, zio) ==
    IF zio.io_error = 0 /\ uberblock_verify(zio.ub) = 0
    THEN zio.ub
    ELSE best

\* The completion of one read: the new value of *ubbest.
vdev_uberblock_load_done(best, zio) ==
    IF zio.io_error = 0 /\ uberblock_verify(zio.ub) = 0
       /\ vdev_uberblock_compare(zio.ub, best) > 0
    THEN zio.ub
    ELSE best

vdev_is_dead(vd) == vd \in dead

\* The cells vdev_uberblock_load reads.
LoadCells(vd) ==
    {<<devOf[leaf], l, n>> :
        leaf \in {x \in LeavesUnder(vd) : ~vdev_is_dead(x)},
        l \in Slots, n \in Cells}

ReadOf(cell) ==
    [ub |-> ViewUb(cell[1], cell[2], cell[3]),
     io_error |-> IF cell \in readErr THEN EIO ELSE 0]

vdev_uberblock_load(vd) ==
    LET reads == LoadCells(vd)
        zios == {ReadOf(r) : r \in reads}
    IN [z \in zios |-> Cardinality({r \in reads : ReadOf(r) = z})]

\* The uberblock the pool is opened with: the reads of vdev_uberblock_load
\* completed one after the other, from a zeroed best.
LoadCellSeq(vd) ==
    LET ls == SelectSeq(LeafSeq(vd), LAMBDA x : ~vdev_is_dead(x))
        per == VDEV_LABELS * VDEV_UBERBLOCK_COUNT
    IN [k \in 1 .. Len(ls) * per |->
          <<devOf[ls[((k - 1) \div per) + 1]],
            ((k - 1) \div VDEV_UBERBLOCK_COUNT) % VDEV_LABELS,
            (k - 1) % VDEV_UBERBLOCK_COUNT>>]

RECURSIVE LoadBestFrom(_, _, _)
LoadBestFrom(cells, i, best) ==
    IF i > Len(cells) THEN best
    ELSE LoadBestFrom(cells, i + 1,
            vdev_uberblock_load_done(best, ReadOf(cells[i])))

LoadBest == LoadBestFrom(LoadCellSeq(Root), 1, ZeroUb)

LoadIdle ==
    /\ ubbest = ZeroUb
    /\ load_pending = EmptyBag
    /\ load = [pc |-> "idle", best0 |-> ZeroUb]

LoadStart ==
    /\ load.pc = "idle"
    /\ load_pending' = vdev_uberblock_load(Root)
    /\ load' = [load EXCEPT !.pc = "reading"]
    /\ UNCHANGED <<treeVars, spaVars, diskVars, faultVars, readcfg, geom, inuse, init,
                   ubbest, syncVars>>

LoadDone ==
    /\ load.pc = "reading"
    /\ \E z \in BagToSet(load_pending) :
        /\ ubbest' = vdev_uberblock_load_done(ubbest, z)
        /\ load_pending' = load_pending (-) SetToBag({z})
    /\ UNCHANGED <<treeVars, spaVars, diskVars, faultVars, readcfg, geom, inuse, init,
                   load, syncVars>>

\* zio_wait returns once every read has completed.
LoadWait ==
    /\ load.pc = "reading"
    /\ load_pending = EmptyBag
    /\ load' = [load EXCEPT !.pc = "done"]
    /\ UNCHANGED <<treeVars, spaVars, diskVars, faultVars, readcfg, geom, inuse, init,
                   ubbest, load_pending, syncVars>>

\* The uberblocks the loader is tried on.
UbInputs ==
    [txg : 1 .. MaxLoadTxg, ts : 1 .. MaxTimestamp, magic : {UBERBLOCK_MAGIC}]
    \cup {[txg |-> MaxLoadTxg, ts |-> MaxTimestamp, magic |-> 0]}

\* The cells seeded: one on each of two devices, and one that holds the
\* greatest uberblock of all and may fail to read.
SeedA == <<"d1", 0, 0>>
SeedC == <<"d3", 1, 0>>
SeedErr == <<"d1", 3, 1>>
TopUb == [txg |-> MaxLoadTxg, ts |-> MaxTimestamp + 1, magic |-> UBERBLOCK_MAGIC]

LoadInputs ==
    /\ \E a \in UbInputs, c \in UbInputs :
        ubring = [d \in Devices |-> [l \in Slots |-> [n \in Cells |->
                    CASE <<d, l, n>> = SeedA -> a
                      [] <<d, l, n>> = SeedC -> c
                      [] <<d, l, n>> = SeedErr -> TopUb
                      [] OTHER -> ZeroUb]]]
    /\ phys = [d \in Devices |-> [l \in Slots |-> NoLabel]]
    /\ boot = [d \in Devices |-> [l \in Slots |-> NoBoot]]
    /\ CacheEmpty
    /\ readErr \in {{}, {SeedErr}}
    /\ packErr = [vd \in Leaves |-> 0]
    /\ vdev_guid = DefaultGuid
    /\ vdev_guid_sum = [vd \in Nodes |-> GuidSum(DefaultGuid, vd)]
    /\ dead \in {{"B"}, {"A", "B"}, {"B", "C"}}
    /\ devOf = DefaultDevOf
    /\ vdev_isspare = [vd \in Leaves |-> FALSE]
    /\ vdev_islog = [vd \in Tops |-> FALSE]
    /\ vdev_ms_array = [vd \in Tops |-> 1]
    /\ ubbest \in {ZeroUb, [txg |-> 1, ts |-> MaxTimestamp, magic |-> UBERBLOCK_MAGIC]}
    /\ load_pending = EmptyBag
    /\ load = [pc |-> "idle", best0 |-> ubbest]

InitLoad ==
    /\ LoadInputs
    /\ SpaDefault
    /\ GeomIdle
    /\ InuseIdle
    /\ InitIdle
    /\ SyncIdle
    /\ clock = 0
    /\ ReadIdle

NextLoad == LoadStart \/ LoadDone \/ LoadWait

SpecLoad == InitLoad /\ [][NextLoad]_vars

InitGeom ==
    /\ GeomInputs
    /\ TreeDefault
    /\ SpaDefault
    /\ DiskBlank
    /\ NoFaults
    /\ LoadIdle
    /\ InuseIdle
    /\ InitIdle
    /\ SyncIdle
    /\ clock = 0
    /\ ReadIdle

NextGeom == \E l \in Slots : LabelOffset(l)

SpecGeom == InitGeom /\ [][NextGeom]_vars


(***************************************************************************)
(* vdev_label_read_config                                                  *)
(***************************************************************************)
vdev_readable(vd) == ~vdev_is_dead(vd)

\* The read of the vdev_phys region of label l: readErr holds the regions
\* whose read fails, the region -1 of a label being its vdev_phys.
LabelReadError(vd, l) == <<devOf[vd], l, Absent>> \in readErr

\* vdev_label_read of the vdev_phys region of label l: the error of the zio
\* and the bytes it leaves in the buffer.
vdev_label_read(vd, l) ==
    [io_error |-> IF LabelReadError(vd, l) THEN EIO ELSE 0,
     label |-> IF LabelReadError(vd, l) THEN NoLabel
               ELSE ViewPhys(devOf[vd], l)]

\* The buffer that never unpacks.
ReadUnpacks_never(got) == FALSE

\* zio_wait(zio) == 0 && nvlist_unpack(...) == 0.
ReadUnpacks(got) == got.io_error = 0 /\ got.label.ok

\* vdev_label_read_config from its entry to the first zio_wait: NULL at once
\* for a leaf that is not readable, else the read of label 0 is in flight.
ReadEnter(vd) ==
    IF ~vdev_readable(vd)
    THEN [pc |-> "done", vd |-> vd, l |-> 0, got |-> NoRead, reads |-> <<>>,
          config |-> NoLabel]
    ELSE [pc |-> "wait", vd |-> vd, l |-> 0, got |-> vdev_label_read(vd, 0),
          reads |-> <<0>>, config |-> NoLabel]

\* The loop that gives up after the label in flight.
ReadWaited_first(f) ==
    IF ReadUnpacks(f.got)
    THEN [f EXCEPT !.pc = "done", !.config = f.got.label]
    ELSE [f EXCEPT !.pc = "done", !.config = NoLabel]

\* From the return of one zio_wait to the next: the loop breaks when the
\* label in flight was read and unpacks, ends with NULL after label 3, and
\* reads the next label otherwise.
ReadWaited(f) ==
    IF ReadUnpacks(f.got)
    THEN [f EXCEPT !.pc = "done", !.config = f.got.label]
    ELSE IF f.l + 1 >= VDEV_LABELS
    THEN [f EXCEPT !.pc = "done", !.config = NoLabel]
    ELSE [f EXCEPT !.l = f.l + 1, !.got = vdev_label_read(f.vd, f.l + 1),
                   !.reads = Append(@, f.l + 1)]

\* A call of vdev_label_read_config on a leaf, up to its first wait.
ReadCall(vd) ==
    /\ readcfg.pc = "idle"
    /\ readcfg' = ReadEnter(vd)
    /\ UNCHANGED <<treeVars, spaVars, diskVars, faultVars, geom, inuse, init,
                   loadVars, syncVars>>

\* The wait of the call returns, and the call runs to its next wait or to
\* its return.
ReadSlot ==
    /\ readcfg.pc = "wait"
    /\ readcfg' = ReadWaited(readcfg)
    /\ UNCHANGED <<treeVars, spaVars, diskVars, faultVars, geom, inuse, init,
                   loadVars, syncVars>>

\* The label found in slot l of the leaf's device, told apart from those of
\* the other slots by its txg.
SlotLabel(l) ==
    [ok |-> TRUE, state |-> POOL_STATE_ACTIVE, guid |-> DefaultGuid["A"],
     pool_guid |-> spa_guid, txg |-> l, crtxg |-> Absent]

\* Every combination of slots that do not unpack and of slots whose read
\* fails, on a leaf that may be unreadable.
ReadInputs ==
    /\ vdev_guid = DefaultGuid
    /\ vdev_guid_sum = [vd \in Nodes |-> GuidSum(DefaultGuid, vd)]
    /\ dead \in {{}, {"A"}}
    /\ devOf = DefaultDevOf
    /\ vdev_isspare = [vd \in Leaves |-> FALSE]
    /\ vdev_islog = [vd \in Tops |-> FALSE]
    /\ vdev_ms_array = [vd \in Tops |-> 1]
    /\ \E bad \in SUBSET Slots :
        phys = [d \in Devices |-> [l \in Slots |->
                  IF d = DefaultDevOf["A"] /\ l \notin bad THEN SlotLabel(l)
                  ELSE NoLabel]]
    /\ boot = [d \in Devices |-> [l \in Slots |-> NoBoot]]
    /\ ubring = [d \in Devices |-> [l \in Slots |-> [n \in Cells |-> ZeroUb]]]
    /\ CacheEmpty
    /\ \E err \in SUBSET Slots :
        readErr = {<<DefaultDevOf["A"], l, Absent>> : l \in err}
    /\ packErr = [vd \in Leaves |-> 0]

InitRead ==
    /\ ReadInputs
    /\ SpaDefault
    /\ ReadIdle
    /\ GeomIdle
    /\ LoadIdle
    /\ InuseIdle
    /\ InitIdle
    /\ SyncIdle
    /\ clock = 0

NextRead ==
    \/ \E vd \in {"A", "B"} : ReadCall(vd)
    \/ ReadSlot

SpecRead == InitRead /\ [][NextRead]_vars

(***************************************************************************)
(* The pool and spare registries vdev_inuse consults.                      *)
(***************************************************************************)
\* The pool of that guid is known to this host.
spa_guid_exists(pool_guid, device_guid) ==
    pool_guid = spa_guid \/ pool_guid \in other_pools

spa_spare_exists(guid) == \E e \in spa_spare_avl : e.guid = guid

\* What spa_spare_exists stores through its pool argument: the pool the
\* spare is active in, 0 when it is in none or is not registered.
spare_pool_of(guid) ==
    IF spa_spare_exists(guid)
    THEN (CHOOSE e \in spa_spare_avl : e.guid = guid).pool
    ELSE 0

spa_has_spare(guid) == guid \in spa_spares

\* spa_spare_add: the registry after the vdev was entered.
spa_spare_add(vd, guid) ==
    IF spa_spare_exists(guid) THEN spa_spare_avl
    ELSE spa_spare_avl \cup {[guid |-> guid, pool |-> 0]}

(***************************************************************************)
(* vdev_inuse                                                              *)
(***************************************************************************)
\* The switch with REMOVE answering not-busy.
vdev_inuse_spare_remove_free(reason, device_guid, state) ==
    CASE reason = "CREATE" -> TRUE
      [] reason = "REPLACE" ->
            ~spa_has_spare(device_guid) \/ spare_pool_of(device_guid) # 0
      [] reason = "SPARE" -> spa_has_spare(device_guid)
      [] OTHER -> FALSE

\* The switch with REPLACE looking at this pool's list only.
vdev_inuse_spare_replace_listed(reason, device_guid, state) ==
    CASE reason = "CREATE" -> TRUE
      [] reason = "REPLACE" -> ~spa_has_spare(device_guid)
      [] reason = "SPARE" -> spa_has_spare(device_guid)
      [] OTHER -> state = POOL_STATE_ACTIVE

\* The switch on reason for a spare device; REMOVE breaks out to the final
\* return.
vdev_inuse_spare(reason, device_guid, state) ==
    CASE reason = "CREATE" -> TRUE
      [] reason = "REPLACE" ->
            ~spa_has_spare(device_guid) \/ spare_pool_of(device_guid) # 0
      [] reason = "SPARE" -> spa_has_spare(device_guid)
      [] OTHER -> state = POOL_STATE_ACTIVE

\* vdev_inuse without the test for a stale label.
vdev_inuse_no_stale(label, crtxg, reason) ==
    LET vdtxg == IF label.crtxg = Absent THEN 0 ELSE label.crtxg
        state == label.state
        device_guid == label.guid
        pool_guid == label.pool_guid
        txg == label.txg
    IN IF ~label.ok THEN [busy |-> FALSE, spare_guid |-> 0]
       ELSE IF state = Absent \/ device_guid = Absent
       THEN [busy |-> FALSE, spare_guid |-> 0]
       ELSE IF state # POOL_STATE_SPARE /\ (pool_guid = Absent \/ txg = Absent)
       THEN [busy |-> FALSE, spare_guid |-> 0]
       ELSE IF state # POOL_STATE_SPARE /\ txg = 0 /\ vdtxg = crtxg
       THEN [busy |-> TRUE, spare_guid |-> 0]
       ELSE IF spa_spare_exists(device_guid) \/ spa_has_spare(device_guid)
       THEN [busy |-> vdev_inuse_spare(reason, device_guid, state),
             spare_guid |-> device_guid]
       ELSE [busy |-> state = POOL_STATE_ACTIVE, spare_guid |-> 0]

\* vdev_inuse(vd, crtxg, reason, &spare_guid) from the return of
\* vdev_label_read_config on: what it returns and what it leaves in
\* spare_guid, given the label that was read and the registries as they are
\* now.
vdev_inuse(label, crtxg, reason) ==
    LET vdtxg == IF label.crtxg = Absent THEN 0 ELSE label.crtxg
        state == label.state
        device_guid == label.guid
        pool_guid == label.pool_guid
        txg == label.txg
    IN IF ~label.ok THEN [busy |-> FALSE, spare_guid |-> 0]
       ELSE IF state = Absent \/ device_guid = Absent
       THEN [busy |-> FALSE, spare_guid |-> 0]
       ELSE IF state # POOL_STATE_SPARE /\ (pool_guid = Absent \/ txg = Absent)
       THEN [busy |-> FALSE, spare_guid |-> 0]
       ELSE IF state # POOL_STATE_SPARE
               /\ ~spa_guid_exists(pool_guid, device_guid)
               /\ ~spa_spare_exists(device_guid)
       THEN [busy |-> FALSE, spare_guid |-> 0]
       ELSE IF state # POOL_STATE_SPARE /\ txg = 0 /\ vdtxg = crtxg
       THEN [busy |-> TRUE, spare_guid |-> 0]
       ELSE IF spa_spare_exists(device_guid) \/ spa_has_spare(device_guid)
       THEN [busy |-> vdev_inuse_spare(reason, device_guid, state),
             spare_guid |-> device_guid]
       ELSE [busy |-> state = POOL_STATE_ACTIVE, spare_guid |-> 0]

Reasons == {"CREATE", "REPLACE", "SPARE", "REMOVE"}

\* The frame of a probe once vdev_label_read_config has returned label.
InuseDecided(f, label) ==
    LET r == vdev_inuse(label, f.crtxg, f.reason)
    IN [f EXCEPT !.pc = "done", !.label = label, !.busy = r.busy,
                 !.spare_guid = r.spare_guid]

\* A probe of leaf A up to the first wait of its read: spare_guid is zeroed
\* and label 0 is read; a leaf that cannot be read is answered at once.
InuseCall(reason, crtxg) ==
    /\ inuse.pc = "idle"
    /\ readcfg.pc = "idle"
    /\ LET f == [pc |-> "read", reason |-> reason, crtxg |-> crtxg,
                 label |-> NoLabel, busy |-> FALSE, spare_guid |-> 0]
           r == ReadEnter("A")
       IN /\ readcfg' = r
          /\ inuse' = IF r.pc = "done" THEN InuseDecided(f, r.config) ELSE f
    /\ UNCHANGED <<treeVars, spaVars, diskVars, faultVars, geom, init,
                   loadVars, syncVars>>

\* The wait of the probe's read returns: the next label is read, or the
\* read is over and the probe decides.
InuseRead ==
    /\ inuse.pc = "read"
    /\ readcfg.pc = "wait"
    /\ LET r == ReadWaited(readcfg)
       IN /\ readcfg' = r
          /\ inuse' = IF r.pc = "done" THEN InuseDecided(inuse, r.config)
                      ELSE inuse
    /\ UNCHANGED <<treeVars, spaVars, diskVars, faultVars, geom, init,
                   loadVars, syncVars>>

\* The labels the probe is tried on: one that does not unpack, and every
\* combination of present and missing fields.
LabelInputs ==
    {NoLabel} \cup
    [ok : {TRUE},
     state : {Absent, POOL_STATE_ACTIVE, POOL_STATE_EXPORTED, POOL_STATE_SPARE},
     guid : {Absent, DefaultGuid["A"], OtherGuid},
     pool_guid : {Absent, spa_guid, OtherPool, UnknownPool},
     txg : {Absent, 0, 1},
     crtxg : {Absent, 1, 2}]

\* The label an inactive hot spare carries.
SpareLabel(guid) ==
    [ok |-> TRUE, state |-> POOL_STATE_SPARE, guid |-> guid,
     pool_guid |-> Absent, txg |-> Absent, crtxg |-> Absent]

InuseInputs ==
    /\ TreeDefault
    /\ \E lab \in LabelInputs :
        phys = [d \in Devices |-> [l \in Slots |->
                  IF d = "d1" /\ l = 0 THEN lab
                  ELSE IF d = "d1" THEN SpareLabel(OtherGuid)
                  ELSE NoLabel]]
    /\ boot = [d \in Devices |-> [l \in Slots |-> NoBoot]]
    /\ ubring = [d \in Devices |-> [l \in Slots |-> [n \in Cells |-> ZeroUb]]]
    /\ CacheEmpty
    /\ readErr \in {{}, {<<"d1", 0, Absent>>},
                    {<<"d1", l, Absent>> : l \in Slots}}
    /\ packErr = [vd \in Leaves |-> 0]
    /\ spa_uberblock = [txg |-> 0, ts |-> 0, magic |-> UBERBLOCK_MAGIC]
    /\ spa_dirty_list = <<>>
    /\ spa_spare_avl \in {{}, {[guid |-> DefaultGuid["A"], pool |-> 0]},
                          {[guid |-> DefaultGuid["A"], pool |-> OtherPool]}}
    /\ spa_spares \in {{}, {DefaultGuid["A"]}}
    /\ other_pools = {OtherPool}

InitInuse ==
    /\ InuseInputs
    /\ InuseIdle
    /\ GeomIdle
    /\ LoadIdle
    /\ InitIdle
    /\ SyncIdle
    /\ clock = 0
    /\ ReadIdle

NextInuse ==
    \/ \E reason \in Reasons, crtxg \in {0, 1} : InuseCall(reason, crtxg)
    \/ InuseRead

SpecInuse == InitInuse /\ [][NextInuse]_vars

\* The label spa_config_generate builds for a leaf in txg.
spa_config_generate(vd, txg) ==
    [ok |-> TRUE, state |-> POOL_STATE_ACTIVE, guid |-> vdev_guid[vd],
     pool_guid |-> spa_guid, txg |-> txg, crtxg |-> Absent]

(***************************************************************************)
(* vdev_label_init: the leaves of the subtree one after the other, each    *)
(* probed, labelled and waited for before the next.                        *)
(***************************************************************************)
VdevBootHeader ==
    [magic |-> "VDEV_BOOT_MAGIC", version |-> "VDEV_BOOT_VERSION",
     offset |-> "VDEV_BOOT_OFFSET", size |-> "VDEV_BOOT_SIZE"]

RECURSIVE Ancestors(_)
Ancestors(vd) ==
    IF vdev_parent(vd) = "none" THEN {}
    ELSE {vdev_parent(vd)} \cup Ancestors(vdev_parent(vd))

\* The adjustment that reaches the parent only.
AdoptGuidSum_parent(vd, guid) ==
    [n \in Nodes |->
        IF n = vd THEN guid
        ELSE IF n = vdev_parent(vd)
        THEN (vdev_guid_sum[n] - vdev_guid[vd] + guid) % GuidWord
        ELSE vdev_guid_sum[n]]

\* The guid sums after vd took the guid of the spare: every ancestor's sum
\* loses the old guid and gains the new one, the leaf's sum is its guid.
AdoptGuidSum(vd, guid) ==
    [n \in Nodes |->
        IF n = vd THEN guid
        ELSE IF n \in Ancestors(vd)
        THEN (vdev_guid_sum[n] - vdev_guid[vd] + guid) % GuidWord
        ELSE vdev_guid_sum[n]]

\* The label of an inactive hot spare, whatever the reason.
InitLabel_spare(vd, guid, crtxg, reason) ==
    [ok |-> TRUE, state |-> POOL_STATE_SPARE, guid |-> guid,
     pool_guid |-> Absent, txg |-> Absent, crtxg |-> Absent]

\* The label vdev_label_init packs for a leaf whose guid is guid.
InitLabel(vd, guid, crtxg, reason) ==
    IF reason = "SPARE" \/ (reason = "REMOVE" /\ vdev_isspare[vd])
    THEN SpareLabel(guid)
    ELSE [spa_config_generate(vd, 0) EXCEPT !.guid = guid, !.crtxg = crtxg]

InitCall(vd, crtxg, reason) ==
    /\ init.pc = "idle" \/ (init.pc = "done" /\ init.ret = 0)
    /\ init.calls < MaxInitCalls
    /\ init' = [init EXCEPT !.pc = "walk", !.vd = vd, !.crtxg = crtxg,
                            !.reason = reason, !.todo = LeafSeq(vd),
                            !.ret = 0, !.calls = @ + 1,
                            !.pre = [guid |-> vdev_guid,
                                     guid_sum |-> vdev_guid_sum,
                                     avl |-> spa_spare_avl]]
    /\ UNCHANGED <<treeVars, spaVars, diskVars, faultVars, readcfg, geom, inuse,
                   loadVars, syncVars>>

\* The walk going on to the next leaf after a leaf failed.
InitWalk_lazy(error, todo) == IF Len(todo) = 1 THEN "done" ELSE "walk"

\* After the body returned error for the head of todo: the recursion returns
\* the first error at once, and goes on to the next leaf otherwise.
InitWalk(error, todo) ==
    IF error # 0 \/ Len(todo) = 1 THEN "done" ELSE "walk"

\* The zios of the label batch of one leaf: for each label its vdev_phys,
\* its boot header and each cell of its uberblock ring.
InitZios ==
    {<<l, "phys", 0>> : l \in Slots} \cup {<<l, "boot", 0>> : l \in Slots}
        \cup {<<l, "ub", n>> : l \in Slots, n \in Cells}

\* The zios of a batch that are made to fail: none, the vdev_phys of label
\* 0 alone, every zio of label 0.
InitFaults ==
    {{}, {<<0, "phys", 0>>}, {z \in InitZios : z[1] = 0}}

\* The frame after the body returned error for the head of todo.
InitReturn(error, spare_guid) ==
    LET vd == Head(init.todo)
    IN [init EXCEPT
          !.todo = Tail(@),
          !.trace = Append(@, [leaf |-> vd, dev |-> devOf[vd],
                               error |-> error,
                               call |-> init.calls,
                               crtxg |-> init.crtxg,
                               reason |-> init.reason,
                               spare_guid |-> spare_guid,
                               wasspare |-> vdev_isspare[vd]]),
          !.ret = error,
          !.spare_guid = 0,
          !.werr = 0,
          !.pc = InitWalk(error, init.todo)]

\* The body from the return of vdev_inuse to the wait for the label batch,
\* or to its return when it does not get that far: busy leaves return
\* EBUSY, the guid of a spare is adopted, a SPARE that adopted returns 0, a
\* label that does not pack returns, and the batch is submitted otherwise;
\* its zios in W fail.
InitBody(probe, W) ==
    LET vd == Head(init.todo)
        d == devOf[vd]
        crtxg == init.crtxg
        reason == init.reason
        adopt == ~probe.busy /\ reason # "REMOVE" /\ probe.spare_guid # 0
        guid == IF adopt THEN probe.spare_guid ELSE vdev_guid[vd]
        labelled == ~probe.busy /\ ~(adopt /\ reason = "SPARE")
        pack == IF packErr[vd] = 0 THEN 0
                ELSE IF packErr[vd] = EFAULT THEN ENAMETOOLONG
                ELSE EINVAL
        written == labelled /\ pack = 0
        sg == IF reason = "REMOVE" THEN 0 ELSE probe.spare_guid
    IN /\ (~written => W = {})
       /\ vdev_guid' = IF adopt THEN [vdev_guid EXCEPT ![vd] = guid]
                        ELSE vdev_guid
       /\ vdev_guid_sum' = IF adopt THEN AdoptGuidSum(vd, guid)
                            ELSE vdev_guid_sum
       /\ c_phys' = IF written
                    THEN [c_phys EXCEPT ![d] = [l \in Slots |->
                            IF <<l, "phys", 0>> \in W THEN c_phys[d][l]
                            ELSE {InitLabel(vd, guid, crtxg, reason)}]]
                    ELSE c_phys
       /\ c_boot' = IF written
                    THEN [c_boot EXCEPT ![d] = [l \in Slots |->
                            IF <<l, "boot", 0>> \in W THEN c_boot[d][l]
                            ELSE {VdevBootHeader}]]
                    ELSE c_boot
       /\ c_ub' = IF written
                  THEN [c_ub EXCEPT ![d] = [l \in Slots |-> [n \in Cells |->
                          IF <<l, "ub", n>> \in W THEN c_ub[d][l][n]
                          ELSE {[spa_uberblock EXCEPT !.txg = 0]}]]]
                  ELSE c_ub
       /\ init' = IF probe.busy THEN InitReturn(EBUSY, sg)
                  ELSE IF ~labelled THEN InitReturn(0, sg)
                  ELSE IF pack # 0 THEN InitReturn(pack, sg)
                  ELSE [init EXCEPT !.pc = "write", !.spare_guid = sg,
                                    !.werr = IF W # {} THEN EIO ELSE 0]

\* The body of vdev_label_init for the next leaf, up to its first wait: a
\* dead leaf returns EIO; otherwise vdev_inuse reads label 0, for the
\* in-use test or, for a REMOVE in a build with assertions, for the ASSERT;
\* a REMOVE in a build without assertions goes on to the label batch.
InitLeaf(W) ==
    /\ init.pc = "walk"
    /\ LET vd == Head(init.todo)
       IN IF vdev_is_dead(vd)
          THEN /\ W = {}
               /\ init' = InitReturn(EIO, 0)
               /\ UNCHANGED <<vdev_guid, vdev_guid_sum, c_phys, c_boot, c_ub,
                              readcfg>>
          ELSE IF init.reason # "REMOVE" \/ init.debug
          THEN /\ W = {}
               /\ readcfg' = ReadEnter(vd)
               /\ init' = [init EXCEPT
                             !.pc = IF init.reason # "REMOVE" THEN "probe"
                                    ELSE "assert",
                             !.spare_guid = 0]
               /\ UNCHANGED <<vdev_guid, vdev_guid_sum, c_phys, c_boot, c_ub>>
          ELSE /\ InitBody([busy |-> FALSE, spare_guid |-> 0], W)
               /\ UNCHANGED readcfg
    /\ UNCHANGED <<dead, devOf, vdev_isspare, vdev_islog, vdev_ms_array,
                   spa_uberblock, spa_dirty_list, spa_spare_avl, spa_spares,
                   other_pools, phys, boot, ubring, c_data, faultVars, geom,
                   inuse, loadVars, syncVars>>

\* A wait of the read of vdev_inuse returns: the next label is read, or
\* vdev_inuse decides from the label it got and the body goes on.
InitProbe(W) ==
    /\ init.pc = "probe"
    /\ readcfg.pc = "wait"
    /\ LET r == ReadWaited(readcfg)
       IN IF r.pc = "wait"
          THEN /\ W = {}
               /\ readcfg' = r
               /\ UNCHANGED <<vdev_guid, vdev_guid_sum, c_phys, c_boot, c_ub,
                              init>>
          ELSE /\ readcfg' = NoReadFrame
               /\ InitBody(vdev_inuse(r.config, init.crtxg, init.reason), W)
    /\ UNCHANGED <<dead, devOf, vdev_isspare, vdev_islog, vdev_ms_array,
                   spa_uberblock, spa_dirty_list, spa_spare_avl, spa_spares,
                   other_pools, phys, boot, ubring, c_data, faultVars, geom,
                   inuse, loadVars, syncVars>>

\* A wait of the read of the vdev_inuse inside the ASSERT returns: the next
\* label is read, or the assertion is decided; it fails on a device that
\* is not in use, and the body goes on to the label batch otherwise.
InitAssert(W) ==
    /\ init.pc = "assert"
    /\ readcfg.pc = "wait"
    /\ LET r == ReadWaited(readcfg)
       IN IF r.pc = "wait"
          THEN /\ W = {}
               /\ readcfg' = r
               /\ UNCHANGED <<vdev_guid, vdev_guid_sum, c_phys, c_boot, c_ub,
                              init>>
          ELSE IF ~vdev_inuse(r.config, init.crtxg, init.reason).busy
          THEN /\ W = {}
               /\ readcfg' = NoReadFrame
               /\ init' = [init EXCEPT !.pc = "panic"]
               /\ UNCHANGED <<vdev_guid, vdev_guid_sum, c_phys, c_boot, c_ub>>
          ELSE /\ readcfg' = NoReadFrame
               /\ InitBody([busy |-> FALSE, spare_guid |-> 0], W)
    /\ UNCHANGED <<dead, devOf, vdev_isspare, vdev_islog, vdev_ms_array,
                   spa_uberblock, spa_dirty_list, spa_spare_avl, spa_spares,
                   other_pools, phys, boot, ubring, c_data, faultVars, geom,
                   inuse, loadVars, syncVars>>

\* The wait for the label batch returns its error; a leaf that was not
\* marked as a spare is entered in the registry after a batch that
\* succeeded when the reason is SPARE or its guid is registered.
InitWritten ==
    /\ init.pc = "write"
    /\ LET vd == Head(init.todo)
           error == init.werr
           add == error = 0 /\ ~vdev_isspare[vd]
                  /\ (init.reason = "SPARE" \/ spa_spare_exists(vdev_guid[vd]))
       IN /\ spa_spare_avl' = IF add THEN spa_spare_add(vd, vdev_guid[vd])
                              ELSE spa_spare_avl
          /\ vdev_isspare' = IF add THEN [vdev_isspare EXCEPT ![vd] = TRUE]
                             ELSE vdev_isspare
          /\ init' = InitReturn(error, init.spare_guid)
    /\ UNCHANGED <<vdev_guid, vdev_guid_sum, dead, devOf, vdev_islog,
                   vdev_ms_array, spa_uberblock, spa_dirty_list, spa_spares,
                   other_pools, diskVars, faultVars, readcfg, geom, inuse,
                   loadVars, syncVars>>

\* The label of an active device of another pool of this host.
ForeignLabel ==
    [ok |-> TRUE, state |-> POOL_STATE_ACTIVE, guid |-> OtherGuid,
     pool_guid |-> OtherPool, txg |-> 1, crtxg |-> Absent]

\* The states vdev_label_init is tried in.  A device may back two leaves; a
\* device that cannot be opened is dead under every leaf it backs.
InitInputs ==
    /\ vdev_guid = DefaultGuid
    /\ vdev_guid_sum = [vd \in Nodes |-> GuidSum(DefaultGuid, vd)]
    /\ devOf \in {DefaultDevOf, [DefaultDevOf EXCEPT !["B"] = "d1"],
                  [DefaultDevOf EXCEPT !["C"] = "d1"]}
    /\ vdev_islog = [vd \in Tops |-> FALSE]
    /\ vdev_ms_array = [vd \in Tops |-> 1]
    /\ \E cond \in {"none", "dead", "EFAULT", "EINVAL", "isspare"} :
        /\ dead = IF cond = "dead" THEN {x \in Leaves : devOf[x] = "d2"} ELSE {}
        /\ packErr = [vd \in Leaves |->
                        IF vd = "B" /\ cond = "EFAULT" THEN EFAULT
                        ELSE IF vd = "B" /\ cond = "EINVAL" THEN EINVAL
                        ELSE 0]
        /\ vdev_isspare = [vd \in Leaves |-> vd = "A" /\ cond = "isspare"]
    /\ readErr = {}
    /\ \E lab \in {NoLabel, SpareLabel(OtherGuid), ForeignLabel} :
        phys = [d \in Devices |-> [l \in Slots |->
                  IF d = "d1" THEN lab ELSE NoLabel]]
    /\ boot = [d \in Devices |-> [l \in Slots |-> NoBoot]]
    /\ ubring = [d \in Devices |-> [l \in Slots |-> [n \in Cells |-> ZeroUb]]]
    /\ CacheEmpty
    /\ spa_uberblock = [txg |-> 1, ts |-> 1, magic |-> UBERBLOCK_MAGIC]
    /\ spa_dirty_list = <<>>
    /\ \E reg \in {"none", "elsewhere", "listed"} :
        /\ spa_spare_avl = IF reg = "none" THEN {}
                           ELSE {[guid |-> OtherGuid, pool |-> 0]}
        /\ spa_spares = IF reg = "listed" THEN {OtherGuid} ELSE {}
    /\ other_pools = {OtherPool}

InitInit ==
    /\ InitInputs
    /\ \E debug \in BOOLEAN : init = InitFrame(debug)
    /\ GeomIdle
    /\ LoadIdle
    /\ InuseIdle
    /\ SyncIdle
    /\ clock = 0
    /\ ReadIdle

NextInit ==
    \/ \E vd \in {"root", "M", "C"}, crtxg \in {1, 2}, reason \in Reasons :
            InitCall(vd, crtxg, reason)
    \/ \E W \in InitFaults : InitLeaf(W)
    \/ \E W \in InitFaults : InitProbe(W)
    \/ \E W \in InitFaults : InitAssert(W)
    \/ InitWritten

SpecInit == InitInit /\ [][NextInit]_vars

(***************************************************************************)
(* The write cache and DKIOCFLUSHWRITECACHE.                               *)
(***************************************************************************)
LeavesUnderAll(list) == UNION {LeavesUnder(list[i]) : i \in 1 .. Len(list)}

\* The devices a flush ioctl on the leaves reaches: those that are open.
FlushDevs(leaves) == {devOf[x] : x \in {y \in leaves : ~vdev_is_dead(y)}}

\* DKIOCFLUSHWRITECACHE on the devices ds: what they cache is on the platter.
Flush(ds) ==
    /\ phys' = [d \in Devices |-> [l \in Slots |->
                  IF d \in ds THEN ViewPhys(d, l) ELSE phys[d][l]]]
    /\ boot' = [d \in Devices |-> [l \in Slots |->
                  IF d \in ds THEN ViewBoot(d, l) ELSE boot[d][l]]]
    /\ ubring' = [d \in Devices |-> [l \in Slots |-> [n \in Cells |->
                  IF d \in ds THEN ViewUb(d, l, n) ELSE ubring[d][l][n]]]]
    /\ c_phys' = [d \in Devices |-> [l \in Slots |->
                  IF d \in ds THEN {} ELSE c_phys[d][l]]]
    /\ c_boot' = [d \in Devices |-> [l \in Slots |->
                  IF d \in ds THEN {} ELSE c_boot[d][l]]]
    /\ c_ub' = [d \in Devices |-> [l \in Slots |-> [n \in Cells |->
                  IF d \in ds THEN {} ELSE c_ub[d][l][n]]]]
    /\ c_data' = c_data \ ds

(***************************************************************************)
(* vdev_sync_label, vdev_sync_labels                                       *)
(***************************************************************************)
\* vdev_sync_label writing to dead leaves too.
vdev_sync_label_dead(vd) == LeavesUnder(vd)

\* The leaves under vd for which vdev_sync_label submits a write.
vdev_sync_label(vd) ==
    {x \in LeavesUnder(vd) : ~vdev_is_dead(x) /\ packErr[x] = 0}

\* vdev_sync_labels(vd, l, txg) when the writes to the leaves in F fail:
\* the error it returns.
vdev_sync_labels(vd, F) ==
    LET submitted == vdev_sync_label(vd)
        good_writes == Cardinality(submitted \ F)
        error0 == IF submitted \cap F # {} THEN EIO ELSE 0
        error1 == IF error0 # 0 /\ good_writes # 0 THEN 0 ELSE error0
        error2 == IF good_writes = 0 /\ error1 = 0 THEN ENODEV ELSE error1
    IN IF vdev_islog[vd] THEN 0 ELSE error2

\* Either pass writing the odd labels.
LabelsOfParity_odd(odd) == <<1, 3>>

\* The labels of one parity, in the order the loop visits them.
LabelsOfParity(odd) == IF odd THEN <<1, 3>> ELSE <<0, 2>>

\* The ways the label writes of one vdev_sync_labels are made to fail: the
\* write to every subset of the leaves it is submitted for.
LabelFaults(vd) == SUBSET vdev_sync_label(vd)

\* Whether one more vdev_sync_labels of the call may be given failing
\* writes: at most MaxLabelFaults of them are.
LabelFaultAllowed(F) == F # {} => sync.nfaults < MaxLabelFaults

\* The locals of vdev_config_sync after vdev_sync_labels returned error for
\* the l-th label of the parity of the i-th dirty vdev: last_error or
\* good_writes, and the loop variables moved on.
SyncLabelReturned(f, error) ==
    LET last == f.l = VDEV_LABELS \div 2
    IN [f EXCEPT !.last_error = IF error # 0 THEN error ELSE @,
                 !.good_writes = IF error # 0 THEN @ ELSE @ + 1,
                 !.i = IF last THEN @ + 1 ELSE @,
                 !.l = IF last THEN 1 ELSE @ + 1]

\* The leaves a pass over the dirty list writes a label to, and those whose
\* write completes without error.
LabelSubmitted(list) == UNION {vdev_sync_label(list[i]) : i \in 1 .. Len(list)}

\* The cache after the labels ls of the leaves in written were written in txg.
WriteLabels(written, ls, txg) ==
    [d \in Devices |-> [l \in Slots |->
        IF l \in Range(ls) /\ (\E x \in written : devOf[x] = d)
        THEN {spa_config_generate(CHOOSE x \in written : devOf[x] = d, txg)}
        ELSE c_phys[d][l]]]

(***************************************************************************)
(* vdev_uberblock_sync, vdev_uberblock_sync_tree                           *)
(***************************************************************************)
RECURSIVE BitAnd(_, _)
BitAnd(a, b) ==
    IF a = 0 \/ b = 0 THEN 0
    ELSE (a % 2) * (b % 2) + 2 * BitAnd(a \div 2, b \div 2)

\* Every uberblock going to the first cell of the ring.
UberblockCell_first(txg) == 0

\* The cell of the ring an uberblock of txg goes to.
UberblockCell(txg) == BitAnd(txg, VDEV_UBERBLOCK_COUNT - 1)

\* The writes vdev_uberblock_sync submits under vd: one per label of every
\* live leaf.
vdev_uberblock_sync(vd) ==
    {<<x, l>> : x \in {y \in LeavesUnder(vd) : ~vdev_is_dead(y)}, l \in Slots}

\* The callback crediting every write that completed.
vdev_uberblock_sync_done_any(leaf, io_error) ==
    IF io_error = 0 THEN 1 ELSE 0

\* The completion callback's credit for a write that ended with io_error.
vdev_uberblock_sync_done(leaf, io_error) ==
    IF io_error = 0 /\ vdev_ms_array[vdev_top(leaf)] # 0 THEN 1 ELSE 0

\* vdev_uberblock_sync_tree(spa, ub, vd, txg) when the writes to the labels
\* uf[leaf] of each leaf fail: the error it returns and the writes that
\* completed without error.
vdev_uberblock_sync_tree(vd, uf) ==
    LET submitted == vdev_uberblock_sync(vd)
        done == {w \in submitted : w[2] \notin uf[w[1]]}
        good_writes == Cardinality(
            {w \in done : vdev_uberblock_sync_done(w[1], 0) = 1})
        error0 == IF done # submitted THEN EIO ELSE 0
        error1 == IF error0 # 0 /\ good_writes # 0 THEN 0 ELSE error0
        error2 == IF good_writes = 0 /\ error1 = 0 THEN EIO ELSE error1
    IN [error |-> error2, written |-> done, submitted |-> submitted]

\* The writes carrying the uberblock the pool had when the call was entered.
WriteUberblocks_entry(done, ub, txg) ==
    [d \in Devices |-> [l \in Slots |-> [n \in Cells |->
        IF n = UberblockCell(txg) /\ (\E w \in done : devOf[w[1]] = d /\ w[2] = l)
        THEN {pre.spa_ub}
        ELSE c_ub[d][l][n]]]]

\* The cache after the uberblock ub was written by the writes in done.
WriteUberblocks(done, ub, txg) ==
    [d \in Devices |-> [l \in Slots |-> [n \in Cells |->
        IF n = UberblockCell(txg) /\ (\E w \in done : devOf[w[1]] = d /\ w[2] = l)
        THEN {ub}
        ELSE c_ub[d][l][n]]]]

\* The ways the uberblock writes to one leaf are made to fail: none, all but
\* the first, all.
UbFailChoices == {{}, Slots \ {0}, Slots}

UbFaults(vd) ==
    {uf \in [Leaves -> UbFailChoices] :
        \A x \in Leaves :
            /\ (x \notin LeavesUnder(vd) \/ vdev_is_dead(x)) => uf[x] = {}
            /\ x # "A" => uf[x] \in {{}, Slots}}

(***************************************************************************)
(* External helpers of vdev_config_sync.                                   *)
(***************************************************************************)
\* uberblock_update: stamps the pool's uberblock with txg and the time.
uberblock_update(ub, txg) ==
    [ub EXCEPT !.txg = txg, !.ts = clock, !.magic = UBERBLOCK_MAGIC]

RECURSIVE DirtyChildren(_, _, _)
\* vdev_config_dirty(rvd): every child of the root not yet on the dirty list
\* is inserted at its head.
DirtyChildren(list, ch, c) ==
    IF c > Len(ch) THEN list
    ELSE DirtyChildren(
            IF ch[c] \in Range(list) THEN list ELSE <<ch[c]>> \o list, ch, c + 1)

vdev_config_dirty(list, vd) ==
    IF vd = Root THEN DirtyChildren(list, vdev_child(Root), 1)
    ELSE IF vd \in Range(list) THEN list ELSE <<vd>> \o list

\* The retry that dirties nothing.
RetryDirtyList_same(list) == list

\* The retry that empties the dirty list.
RetryDirtyList_none(list) == <<>>

\* The dirty list the label retry goes over: every vdev dirtied.
RetryDirtyList(list) == vdev_config_dirty(list, Root)


(***************************************************************************)
(* vdev_config_sync                                                        *)
(***************************************************************************)
nonSyncVars == <<treeVars, faultVars, readcfg, geom, inuse, init, loadVars>>

\* What the devices hold, as a read sees it.
PhysView == [d \in Devices |-> [l \in Slots |-> ViewPhys(d, l)]]
UbView == [d \in Devices |-> [l \in Slots |-> [n \in Cells |-> ViewUb(d, l, n)]]]

\* The vdevs each barrier of vdev_config_sync sends the flush to.
Phase0FlushLeaves == UNION {LeavesUnder(vd) : vd \in sync.clean}
Phase2FlushLeaves_uvd == LeavesUnder(sync.uvd)
Phase2FlushLeaves == LeavesUnderAll(spa_dirty_list)
Phase4FlushLeaves == LeavesUnder(sync.uvd)
Phase6FlushLeaves == LeavesUnderAll(spa_dirty_list)

\* The shortcut taken on a resync of the txg on disk too.
NothingToSync_resync(ub, txg, changed, list) == ~changed /\ list = <<>>

\* The test for nothing to sync: not a resync of the txg the uberblock is
\* already at, uberblock_update reported no change, nothing is dirty.
NothingToSync(ub, txg, changed, list) ==
    ub.txg < txg /\ ~changed /\ list = <<>>

\* Entry: the nothing-to-sync and frozen-pool returns.  changed is what
\* uberblock_update reports, frozen whether txg is past spa_freeze_txg, clean
\* the vdevs on the txg's clean list: those written to in the txg, whose
\* blocks are still in the write caches.
SyncCall(uvd, txg, changed, frozen, clean) ==
    /\ sync.pc = "idle"
    /\ spa_uberblock.txg <= txg
    /\ LET update == spa_uberblock.txg < txg
           nothing == NothingToSync(spa_uberblock, txg, changed, spa_dirty_list)
       IN /\ spa_uberblock' =
                IF update THEN uberblock_update(spa_uberblock, txg)
                ELSE spa_uberblock
          /\ sync' = [pc |-> IF nothing \/ frozen THEN "done" ELSE "phase0",
                      uvd |-> uvd, txg |-> txg, i |-> 1, l |-> 1,
                      good_writes |-> 0, last_error |-> 0, error |-> 0, retry_avail |-> TRUE,
                      ret |-> 0, clean |-> clean, ub_unflushed |-> {},
                      ub_leaves |-> {}, even_gw |-> <<>>,
                      lab_ok |-> [even |-> {}, odd |-> {}],
                      faulted |-> FALSE, nfaults |-> 0,
                      batch |-> [vd |-> Root, error |-> 0, written |-> {},
                                 submitted |-> {}]]
    /\ pre' = [spa_ub |-> spa_uberblock, dirty |-> spa_dirty_list]
    /\ hist' = <<>>
    /\ c_data' = FlushDevs(UNION {LeavesUnder(vd) : vd \in clean})
    /\ UNCHANGED <<nonSyncVars, phys, boot, ubring, c_phys, c_boot, c_ub,
                   spa_dirty_list, spa_spare_avl, spa_spares, other_pools,
                   clock, snap>>

\* Phase 0: flush every vdev written in this txg, and wait.
SyncFlush0 ==
    /\ sync.pc = "phase0"
    /\ Flush(FlushDevs(Phase0FlushLeaves))
    /\ hist' = Append(hist, "flush0")
    /\ sync' = [sync EXCEPT !.pc = "even",
                            !.ub_unflushed = @ \ Phase0FlushLeaves]
    /\ UNCHANGED <<nonSyncVars, spaVars, pre, clock, snap>>

\* One turn of the loop over the even labels: vdev_sync_labels of the next
\* even label of the next dirty vdev, submitted and waited for.  The writes
\* to the leaves in F fail.
SyncEven(F) ==
    /\ sync.pc = "even"
    /\ sync.i <= Len(spa_dirty_list)
    /\ LET vd == spa_dirty_list[sync.i]
           l == LabelsOfParity(FALSE)[sync.l]
           submitted == vdev_sync_label(vd)
           s1 == [sync EXCEPT !.lab_ok.even = @ \cup (submitted \ F),
                              !.faulted = @ \/ F # {},
                              !.nfaults = IF F # {} THEN @ + 1 ELSE @]
       IN /\ F \in LabelFaults(vd)
          /\ LabelFaultAllowed(F)
          /\ c_phys' = WriteLabels(submitted \ F, <<l>>, sync.txg)
          /\ hist' = IF sync.i = 1 /\ sync.l = 1 THEN Append(hist, "even")
                     ELSE hist
          /\ sync' = SyncLabelReturned(s1, vdev_sync_labels(vd, F))
    /\ UNCHANGED <<nonSyncVars, spaVars, phys, boot, ubring, c_boot, c_ub,
                   c_data, pre, clock, snap>>

\* The loop over the even labels is over: the branch on good_writes, to the
\* retry over every vdev, to the return of last_error, or on to the flush.
SyncEvenEnd ==
    /\ sync.pc = "even"
    /\ sync.i > Len(spa_dirty_list)
    /\ LET list == spa_dirty_list
           s1 == [sync EXCEPT !.even_gw = Append(@, sync.good_writes),
                              !.i = 1, !.l = 1]
       IN /\ hist' = IF list = <<>> THEN Append(hist, "even") ELSE hist
          /\ IF sync.good_writes = 0 /\ sync.retry_avail
             THEN /\ spa_dirty_list' = RetryDirtyList(list)
                  /\ sync' = [s1 EXCEPT !.retry_avail = FALSE,
                                          !.last_error = 0]
             ELSE /\ UNCHANGED spa_dirty_list
                  /\ sync' = IF sync.good_writes = 0
                             THEN [s1 EXCEPT !.pc = "done",
                                               !.ret = sync.last_error]
                             ELSE [s1 EXCEPT !.pc = "flush2"]
    /\ UNCHANGED <<nonSyncVars, diskVars, spa_uberblock, spa_spare_avl,
                   spa_spares, other_pools, pre, clock, snap>>

\* Phase 2: flush the new labels.
SyncFlush2 ==
    /\ sync.pc = "flush2"
    /\ Flush(FlushDevs(Phase2FlushLeaves))
    /\ hist' = Append(hist, "flush2")
    /\ sync' = [sync EXCEPT !.pc = "uberblock",
                            !.ub_unflushed = @ \ Phase2FlushLeaves]
    /\ UNCHANGED <<nonSyncVars, spaVars, pre, clock, snap>>

LeavesOfWrites(ws) == {w[1] : w \in ws}

\* The batch run again whenever it failed, under the root too.
UberblockRetry_always(error, uvd) == error # 0

\* After the batch under uvd returned error: whether it is run again, under
\* the root.
UberblockRetry(error, uvd) == error # 0 /\ uvd # Root

\* Phase 3: the uberblocks under uvd.
SyncUberblock(uf) ==
    /\ sync.pc = "uberblock"
    /\ uf \in UbFaults(sync.uvd)
    /\ LET r == vdev_uberblock_sync_tree(sync.uvd, uf)
           s1 == [sync EXCEPT !.batch = [vd |-> sync.uvd, error |-> r.error,
                                         written |-> r.written,
                                         submitted |-> r.submitted],
                              !.faulted = @ \/ r.written # r.submitted]
       IN /\ c_ub' = WriteUberblocks(r.written, spa_uberblock, sync.txg)
          /\ hist' = Append(hist, "uberblock")
          /\ sync' = IF UberblockRetry(r.error, sync.uvd)
                     THEN [s1 EXCEPT !.pc = "uberblock_root",
                                       !.error = r.error,
                                       !.ub_unflushed = @ \cup LeavesOfWrites(r.written),
                                       !.ub_leaves = @ \cup LeavesOfWrites(r.written)]
                     ELSE IF r.error # 0
                     THEN [s1 EXCEPT !.pc = "done", !.error = r.error,
                                       !.ret = r.error,
                                       !.ub_unflushed = @ \cup LeavesOfWrites(r.written),
                                       !.ub_leaves = @ \cup LeavesOfWrites(r.written)]
                     ELSE [s1 EXCEPT !.pc = "flush4", !.error = 0,
                                       !.ub_unflushed = @ \cup LeavesOfWrites(r.written),
                                       !.ub_leaves = @ \cup LeavesOfWrites(r.written)]
    /\ UNCHANGED <<nonSyncVars, spaVars, phys, boot, ubring, c_phys, c_boot,
                   c_data, pre, clock, snap>>

\* Phase 3, after the attempt under uvd failed: the uberblocks under the root.
SyncUberblockRoot(uf) ==
    /\ sync.pc = "uberblock_root"
    /\ uf \in UbFaults(Root)
    /\ LET r == vdev_uberblock_sync_tree(Root, uf)
           s1 == [sync EXCEPT !.batch = [vd |-> Root, error |-> r.error,
                                         written |-> r.written,
                                         submitted |-> r.submitted],
                              !.faulted = @ \/ r.written # r.submitted]
       IN /\ c_ub' = WriteUberblocks(r.written, spa_uberblock, sync.txg)
          /\ hist' = Append(hist, "uberblock")
          /\ sync' = IF r.error # 0
                     THEN [s1 EXCEPT !.pc = "done", !.error = r.error,
                                       !.ret = r.error,
                                       !.ub_unflushed = @ \cup LeavesOfWrites(r.written),
                                       !.ub_leaves = @ \cup LeavesOfWrites(r.written)]
                     ELSE [s1 EXCEPT !.pc = "flush4", !.error = 0,
                                       !.ub_unflushed = @ \cup LeavesOfWrites(r.written),
                                       !.ub_leaves = @ \cup LeavesOfWrites(r.written)]
    /\ UNCHANGED <<nonSyncVars, spaVars, phys, boot, ubring, c_phys, c_boot,
                   c_data, pre, clock, snap>>

\* Phase 4: flush the uberblocks.
SyncFlush4 ==
    /\ sync.pc = "flush4"
    /\ Flush(FlushDevs(Phase4FlushLeaves))
    /\ hist' = Append(hist, "flush4")
    /\ sync' = [sync EXCEPT !.pc = "odd", !.last_error = 0,
                            !.ub_unflushed = @ \ Phase4FlushLeaves]
    /\ UNCHANGED <<nonSyncVars, spaVars, pre, clock, snap>>

\* Phase 5, one turn of the loop over the odd labels: vdev_sync_labels of
\* the next odd label of the next dirty vdev, submitted and waited for.
SyncOdd(F) ==
    /\ sync.pc = "odd"
    /\ sync.i <= Len(spa_dirty_list)
    /\ LET vd == spa_dirty_list[sync.i]
           l == LabelsOfParity(TRUE)[sync.l]
           submitted == vdev_sync_label(vd)
           s1 == [sync EXCEPT !.lab_ok.odd = @ \cup (submitted \ F),
                              !.faulted = @ \/ F # {},
                              !.nfaults = IF F # {} THEN @ + 1 ELSE @]
       IN /\ F \in LabelFaults(vd)
          /\ LabelFaultAllowed(F)
          /\ c_phys' = WriteLabels(submitted \ F, <<l>>, sync.txg)
          /\ hist' = IF sync.i = 1 /\ sync.l = 1 THEN Append(hist, "odd")
                     ELSE hist
          /\ sync' = SyncLabelReturned(s1, vdev_sync_labels(vd, F))
    /\ UNCHANGED <<nonSyncVars, spaVars, phys, boot, ubring, c_boot, c_ub,
                   c_data, pre, clock, snap>>

\* The loop over the odd labels is over: the return of last_error when
\* good_writes is 0, and on to the last flush otherwise.
SyncOddEnd ==
    /\ sync.pc = "odd"
    /\ sync.i > Len(spa_dirty_list)
    /\ hist' = IF spa_dirty_list = <<>> THEN Append(hist, "odd") ELSE hist
    /\ sync' = IF sync.good_writes = 0
               THEN [sync EXCEPT !.pc = "done", !.ret = sync.last_error,
                                 !.i = 1, !.l = 1]
               ELSE [sync EXCEPT !.pc = "flush6", !.i = 1, !.l = 1]
    /\ UNCHANGED <<nonSyncVars, spaVars, diskVars, pre, clock, snap>>

\* Phase 6: flush the odd labels, and return success.
SyncFlush6 ==
    /\ sync.pc = "flush6"
    /\ Flush(FlushDevs(Phase6FlushLeaves))
    /\ hist' = Append(hist, "flush6")
    /\ sync' = [sync EXCEPT !.pc = "done", !.ret = 0,
                            !.ub_unflushed = @ \ Phase6FlushLeaves]
    /\ UNCHANGED <<nonSyncVars, spaVars, pre, clock, snap>>

(***************************************************************************)
(* The states vdev_config_sync is entered in: a pool whose labels and      *)
(* uberblocks were all brought to StartTxg.                                *)
(***************************************************************************)
StartUb == [txg |-> StartTxg, ts |-> 1, magic |-> UBERBLOCK_MAGIC]

\* The ring after the syncs up to StartTxg: cell n holds the uberblock of the
\* last txg that maps to it, or the txg-0 template vdev_label_init wrote.
StartRing ==
    [n \in Cells |->
        LET ts == {t \in 1 .. StartTxg : UberblockCell(t) = n}
        IN IF ts = {} THEN [txg |-> 0, ts |-> 1, magic |-> UBERBLOCK_MAGIC]
           ELSE [txg |-> CHOOSE t \in ts : \A u \in ts : u <= t, ts |-> 1,
                 magic |-> UBERBLOCK_MAGIC]]

PhysAtStart ==
    [d \in Devices |-> [l \in Slots |->
        spa_config_generate(CHOOSE x \in Leaves : DefaultDevOf[x] = d, StartTxg)]]

DiskAtStart ==
    /\ phys = PhysAtStart
    /\ boot = [d \in Devices |-> [l \in Slots |-> VdevBootHeader]]
    /\ ubring = [d \in Devices |-> [l \in Slots |-> StartRing]]
    /\ CacheEmpty

DirtyLists == {<<>>, <<"M">>, <<"C">>, <<"C", "M">>}

SyncInputs ==
    /\ vdev_guid = DefaultGuid
    /\ vdev_guid_sum = [vd \in Nodes |-> GuidSum(DefaultGuid, vd)]
    /\ dead \in {{}, {"B"}, {"A", "B"}, {"C"}}
    /\ devOf = DefaultDevOf
    /\ vdev_isspare = [vd \in Leaves |-> FALSE]
    /\ \E kind \in {"disk", "log", "new"} :
        /\ vdev_islog = [vd \in Tops |-> vd = "C" /\ kind = "log"]
        /\ vdev_ms_array = [vd \in Tops |->
                              IF vd = "C" /\ kind = "new" THEN 0 ELSE 1]
    /\ spa_uberblock = StartUb
    /\ spa_dirty_list \in DirtyLists
    /\ spa_spare_avl = {}
    /\ spa_spares = {}
    /\ other_pools = {}
    /\ DiskAtStart
    /\ NoFaults
    /\ clock = 2

InitSync ==
    /\ SyncInputs
    /\ SyncIdle
    /\ GeomIdle
    /\ LoadIdle
    /\ InuseIdle
    /\ InitIdle
    /\ ReadIdle

SyncSteps ==
    \/ SyncFlush0
    \/ \E F \in SUBSET Leaves : SyncEven(F)
    \/ SyncEvenEnd
    \/ SyncFlush2
    \/ \E uf \in [Leaves -> UbFailChoices] : SyncUberblock(uf)
    \/ \E uf \in [Leaves -> UbFailChoices] : SyncUberblockRoot(uf)
    \/ SyncFlush4
    \/ \E F \in SUBSET Leaves : SyncOdd(F)
    \/ SyncOddEnd
    \/ SyncFlush6

NextSync ==
    \/ \E uvd \in {"root", "M", "C"}, txg \in {StartTxg, StartTxg + 1},
          changed \in BOOLEAN, frozen \in BOOLEAN, clean \in {{"M"}, Tops} :
            SyncCall(uvd, txg, changed, frozen, clean)
    \/ SyncSteps

SpecSync == InitSync /\ [][NextSync]_vars

(***************************************************************************)
(* Loss of power during vdev_config_sync: of the writes still in the write *)
(* caches some reach the platter and the others are lost.                  *)
(***************************************************************************)
SlotCached(d, l) ==
    \/ c_phys[d][l] # {}
    \/ c_boot[d][l] # {}
    \/ \E n \in Cells : c_ub[d][l][n] # {}

\* What a device makes of its cache when the power goes: nothing of it
\* lands, all of it, or only the lowest label written to.
CrashChoices ==
    {k \in [Devices -> {"none", "first", "all"}] :
        \A d \in Devices :
            /\ (\A l \in Slots : ~SlotCached(d, l)) => k[d] = "none"
            /\ Cardinality({l \in Slots : SlotCached(d, l)}) < 2 => k[d] # "first"}

CrashLands(k, d, l) ==
    \/ k[d] = "all"
    \/ k[d] = "first" /\ SlotCached(d, l)
         /\ \A m \in Slots : SlotCached(d, m) => l <= m

Crash(k) ==
    /\ sync.pc \notin {"idle", "crashed"}
    /\ k \in CrashChoices
    /\ phys' = [d \in Devices |-> [l \in Slots |->
                  IF CrashLands(k, d, l) THEN ViewPhys(d, l) ELSE phys[d][l]]]
    /\ boot' = [d \in Devices |-> [l \in Slots |->
                  IF CrashLands(k, d, l) THEN ViewBoot(d, l) ELSE boot[d][l]]]
    /\ ubring' = [d \in Devices |-> [l \in Slots |-> [n \in Cells |->
                  IF CrashLands(k, d, l) THEN ViewUb(d, l, n)
                  ELSE ubring[d][l][n]]]]
    /\ c_phys' = [d \in Devices |-> [l \in Slots |-> {}]]
    /\ c_boot' = [d \in Devices |-> [l \in Slots |-> {}]]
    /\ c_ub' = [d \in Devices |-> [l \in Slots |-> [n \in Cells |-> {}]]]
    /\ c_data' = {}
    /\ sync' = [sync EXCEPT !.pc = "crashed"]
    /\ UNCHANGED <<nonSyncVars, spaVars, hist, pre, clock, snap>>

\* A pool of plain disks of which one side of the mirror may be missing,
\* synced to the txg after the one on disk.
InitCrash ==
    /\ InitSync
    /\ dead \subseteq {"B"}
    /\ ~vdev_islog["C"]
    /\ vdev_ms_array["C"] # 0
    /\ spa_dirty_list \in {<<>>, <<"M">>}

NextCrash ==
    \/ \E uvd \in {"root", "C"} :
            SyncCall(uvd, StartTxg + 1, TRUE, FALSE, Tops)
    \/ SyncSteps
    \/ \E k \in [Devices -> {"none", "first", "all"}] : Crash(k)

SpecCrash == InitCrash /\ [][NextCrash]_vars

(***************************************************************************)
(* vdev_config_sync run twice against vdev_config_sync run once.  From one *)
(* starting state the sync is first run without a failing write and what   *)
(* it leaves on the devices is kept in snap; the devices and the pool are  *)
(* put back, and the sync is run with failing writes and, when it has      *)
(* returned, run again without.                                            *)
(***************************************************************************)
NoUbFaults == [x \in Leaves |-> {}]

CleanSteps ==
    \/ SyncFlush0
    \/ SyncEven({})
    \/ SyncEvenEnd
    \/ SyncFlush2
    \/ SyncUberblock(NoUbFaults)
    \/ SyncUberblockRoot(NoUbFaults)
    \/ SyncFlush4
    \/ SyncOdd({})
    \/ SyncOddEnd
    \/ SyncFlush6

IdemRefCall(uvd) ==
    /\ snap.mode = "ref"
    /\ SyncCall(uvd, StartTxg + 1, TRUE, FALSE, Tops)

\* The reference run has returned: keep its result and restore the start.
IdemReset ==
    /\ snap.mode = "ref"
    /\ sync.pc = "done"
    /\ snap' = [mode |-> "first", phys |-> PhysView, ub |-> UbView,
                ret |-> sync.ret]
    /\ phys' = PhysAtStart
    /\ ubring' = [d \in Devices |-> [l \in Slots |-> StartRing]]
    /\ c_phys' = [d \in Devices |-> [l \in Slots |-> {}]]
    /\ c_boot' = [d \in Devices |-> [l \in Slots |-> {}]]
    /\ c_ub' = [d \in Devices |-> [l \in Slots |-> [n \in Cells |-> {}]]]
    /\ c_data' = {}
    /\ spa_uberblock' = pre.spa_ub
    /\ spa_dirty_list' = pre.dirty
    /\ sync' = [sync EXCEPT !.pc = "idle"]
    /\ hist' = <<>>
    /\ UNCHANGED <<nonSyncVars, boot, spa_spare_avl, spa_spares, other_pools,
                   pre, clock>>

\* The call with the arguments of the reference run.
IdemCall ==
    /\ snap.mode \in {"first", "second"}
    /\ SyncCall(sync.uvd, sync.txg, TRUE, FALSE, sync.clean)

\* The first run has returned; the caller calls again.
IdemReturn ==
    /\ snap.mode = "first"
    /\ sync.pc = "done"
    /\ snap' = [snap EXCEPT !.mode = "second"]
    /\ sync' = [sync EXCEPT !.pc = "idle"]
    /\ UNCHANGED <<nonSyncVars, spaVars, diskVars, hist, pre, clock>>

InitIdem ==
    /\ SyncInputs
    /\ dead \in {{}, {"B"}, {"C"}}
    /\ ~vdev_islog["C"]
    /\ spa_dirty_list \in {<<>>, <<"M">>}
    /\ SyncLocalsIdle
    /\ snap = [mode |-> "ref", phys |-> <<>>, ub |-> <<>>, ret |-> 0]
    /\ GeomIdle
    /\ LoadIdle
    /\ InuseIdle
    /\ InitIdle
    /\ ReadIdle

NextIdem ==
    \/ \E uvd \in {"root", "C"} : IdemRefCall(uvd)
    \/ snap.mode \in {"ref", "second"} /\ CleanSteps
    \/ snap.mode = "first" /\ SyncSteps
    \/ IdemReset
    \/ IdemCall
    \/ IdemReturn

SpecIdem == InitIdem /\ [][NextIdem]_vars

(***************************************************************************)
(* vdev_config_sync with what it is called with on record: snap keeps what *)
(* uberblock_update reports and whether txg is past the freeze point.  No  *)
(* write fails.                                                            *)
(***************************************************************************)
EntryCall(uvd, txg, clean) ==
    /\ snap.mode = "entry"
    /\ SyncCall(uvd, txg, snap.changed, snap.frozen, clean)

InitEntry ==
    /\ SyncInputs
    /\ SyncLocalsIdle
    /\ snap \in [mode : {"entry"}, changed : BOOLEAN, frozen : BOOLEAN]
    /\ GeomIdle
    /\ LoadIdle
    /\ InuseIdle
    /\ InitIdle
    /\ ReadIdle

NextEntry ==
    \/ \E uvd \in {"root", "M", "C"}, txg \in {StartTxg, StartTxg + 1},
          clean \in {{"M"}, Tops} : EntryCall(uvd, txg, clean)
    \/ CleanSteps

SpecEntry == InitEntry /\ [][NextEntry]_vars

(***************************************************************************)
(* A sequence of calls of vdev_config_sync, each for the txg of the one    *)
(* before or a later one, with uberblock writes that fail.  snap keeps the *)
(* rings as they were when the last call returned and the greatest txg of  *)
(* which an uberblock write had completed by then.                         *)
(***************************************************************************)
SeqTxgs == 3

SeqCall(uvd, txg) ==
    /\ snap.mode = "seq"
    /\ SyncCall(uvd, txg, TRUE, FALSE, Tops)

\* The call has returned; the caller will call again.
SeqReturn ==
    /\ snap.mode = "seq"
    /\ sync.pc = "done"
    /\ snap' = [mode |-> "seq", ub |-> UbView,
                maxtxg |-> IF sync.ub_leaves # {} /\ sync.txg > snap.maxtxg
                           THEN sync.txg ELSE snap.maxtxg]
    /\ sync' = [sync EXCEPT !.pc = "idle"]
    /\ UNCHANGED <<nonSyncVars, spaVars, diskVars, hist, pre, clock>>

InitSeq ==
    /\ SyncInputs
    /\ dead = {"B"}
    /\ ~vdev_islog["C"]
    /\ spa_dirty_list = <<"M">>
    /\ SyncLocalsIdle
    /\ snap = [mode |-> "seq",
               ub |-> [d \in Devices |-> [l \in Slots |-> StartRing]],
               maxtxg |-> StartTxg]
    /\ GeomIdle
    /\ LoadIdle
    /\ InuseIdle
    /\ InitIdle
    /\ ReadIdle

NextSeq ==
    \/ \E uvd \in {"root", "C"}, txg \in StartTxg .. (StartTxg + SeqTxgs) :
            SeqCall(uvd, txg)
    \/ SyncFlush0
    \/ SyncEven({})
    \/ SyncEvenEnd
    \/ SyncFlush2
    \/ \E uf \in [Leaves -> UbFailChoices] : SyncUberblock(uf)
    \/ \E uf \in [Leaves -> UbFailChoices] : SyncUberblockRoot(uf)
    \/ SyncFlush4
    \/ SyncOdd({})
    \/ SyncOddEnd
    \/ SyncFlush6
    \/ SeqReturn

SpecSeq == InitSeq /\ [][NextSeq]_vars

(***************************************************************************)
(* Properties of vdev_label_offset, checked under SpecGeom.                *)
(***************************************************************************)
GeomAllSlots == geom.offset = 0 /\ \A l \in Slots : geom.out[l] # Absent

\* The four labels sit at 0, L, psize - 2L and psize - L, inside the device
\* and clear of one another.
GeomLayout ==
    /\ geom.out[0] = 0
    /\ geom.out[1] = LabelSize
    /\ geom.out[2] = (geom.psize - 2 * LabelSize) % Word
    /\ geom.out[3] = (geom.psize - LabelSize) % Word
    /\ \A l \in Slots : geom.out[l] + LabelSize <= geom.psize
    /\ \A l1, l2 \in Slots :
        l1 # l2 =>
            /\ geom.out[l1] # geom.out[l2]
            /\ \/ geom.out[l1] + LabelSize <= geom.out[l2]
               \/ geom.out[l2] + LabelSize <= geom.out[l1]

\* C7 as stated: for every psize that is a multiple of the label size the
\* four label ranges are distinct, disjoint and inside [0, psize), at offsets
\* 0, L, psize - 2L and psize - L.
C7_AnyPsize == GeomAllSlots => GeomLayout

\* C7, amended: the layout holds for every psize that is a multiple of the
\* label size and leaves room for the four labels (psize >= 4L); below that
\* the unsigned subtraction psize - 4L wraps.
C7_LabelGeometry ==
    (GeomAllSlots /\ geom.psize >= VDEV_LABELS * LabelSize) => GeomLayout

\* A device larger than its four labels, all four offsets computed.
C7_Witness ==
    /\ GeomAllSlots
    /\ geom.psize > VDEV_LABELS * LabelSize
    /\ geom.out[2] = geom.psize - 2 * LabelSize
    /\ geom.out[1] + LabelSize < geom.out[2]

(***************************************************************************)
(* Properties of vdev_uberblock_load, checked under SpecLoad.              *)
(***************************************************************************)
\* The uberblocks the election is between: the initial best and every cell
\* of a live leaf that reads without error and verifies.
LoadCandidates ==
    {load.best0} \cup
    {ViewUb(devOf[x], l, n) : <<x, l, n>> \in
        {c \in Leaves \X Slots \X Cells :
            /\ c[1] \notin dead
            /\ <<devOf[c[1]], c[2], c[3]>> \notin readErr
            /\ ViewUb(devOf[c[1]], c[2], c[3]).magic = UBERBLOCK_MAGIC}}

LexAtLeast(a, b) == a.txg > b.txg \/ (a.txg = b.txg /\ a.ts >= b.ts)

\* C4: once the batch of reads has drained, whatever the order of the
\* completions, the best-so-far is a candidate whose (txg, timestamp) is
\* lexicographically greatest among the initial best and the cells of live
\* leaves that read without error and verify.
C4_LoadBestIsLexMax ==
    load.pc = "done" =>
        /\ ubbest \in LoadCandidates
        /\ \A c \in LoadCandidates : LexAtLeast(ubbest, c)

\* Two verifying cells of equal txg and different timestamps, the later one
\* elected over the initial best, while a greater uberblock failed to read
\* and another sat on a dead leaf or failed to verify.
C4_Witness ==
    /\ load.pc = "done"
    /\ SeedErr \in readErr
    /\ ubbest # load.best0
    /\ \E a, b \in LoadCandidates :
        /\ a.txg = b.txg
        /\ a.ts < b.ts
        /\ ubbest = b
    /\ LexAtLeast(ubring[SeedErr[1]][SeedErr[2]][SeedErr[3]], ubbest)

(***************************************************************************)
(* Properties of vdev_label_read_config, checked under SpecRead.           *)
(***************************************************************************)
\* The slots of the leaf read whose read succeeds and whose bytes decode.
ReadGoodSlots ==
    {l \in Slots : /\ <<devOf[readcfg.vd], l, Absent>> \notin readErr
                   /\ phys[devOf[readcfg.vd]][l].ok}

ReadLowestGood == CHOOSE l \in ReadGoodSlots : \A m \in ReadGoodSlots : l <= m

\* C24: the call returns none exactly when the leaf is not readable or no
\* slot both reads and decodes; otherwise it returns the tree of the lowest
\* such slot, having read the slots from 0 up to that one and no higher.
\* With no such slot it has read the four slots in order, and on a leaf
\* that is not readable it has read none.
C24_ReadConfigSlotOrder ==
    readcfg.pc = "done" =>
        /\ ~readcfg.config.ok <=> (readcfg.vd \in dead \/ ReadGoodSlots = {})
        /\ ~readcfg.config.ok => readcfg.config = NoLabel
        /\ readcfg.vd \in dead => readcfg.reads = <<>>
        /\ (readcfg.vd \notin dead /\ ReadGoodSlots = {})
              => readcfg.reads = <<0, 1, 2, 3>>
        /\ (readcfg.vd \notin dead /\ ReadGoodSlots # {}) =>
              /\ readcfg.config = phys[devOf[readcfg.vd]][ReadLowestGood]
              /\ readcfg.config.txg = ReadLowestGood
              /\ readcfg.reads = [i \in 1 .. (ReadLowestGood + 1) |-> i - 1]

\* Slot 0 does not decode, the read of slot 1 fails, slots 2 and 3 are good:
\* the tree of slot 2 is returned and slot 3 was not read.
C24_Witness ==
    /\ readcfg.pc = "done"
    /\ readcfg.vd = "A"
    /\ ~phys[devOf["A"]][0].ok
    /\ phys[devOf["A"]][1].ok
    /\ readErr = {<<devOf["A"], 1, Absent>>}
    /\ ReadGoodSlots = {2, 3}
    /\ readcfg.config = SlotLabel(2)
    /\ readcfg.reads = <<0, 1, 2>>

(***************************************************************************)
(* Properties of vdev_inuse, checked under SpecInuse.                      *)
(***************************************************************************)
\* The label the probe saw.
InuseLabel == inuse.label

InuseDecodes ==
    /\ InuseLabel.ok
    /\ InuseLabel.state # Absent
    /\ InuseLabel.guid # Absent

\* The device's guid is registered as a spare on this host or is on this
\* pool's list of spares.
InuseKnownSpare ==
    \/ \E e \in spa_spare_avl : e.guid = InuseLabel.guid
    \/ InuseLabel.guid \in spa_spares

InuseSpareActive ==
    \E e \in spa_spare_avl : e.guid = InuseLabel.guid /\ e.pool # 0

\* A label of a state other than SPARE names its pool and its txg.
InuseComplete ==
    \/ InuseLabel.state = POOL_STATE_SPARE
    \/ InuseLabel.pool_guid # Absent /\ InuseLabel.txg # Absent

\* The label is not stale: its pool is known, or the device is registered.
InuseNotStale ==
    \/ InuseLabel.state = POOL_STATE_SPARE
    \/ InuseLabel.pool_guid \in {spa_guid} \cup other_pools
    \/ \E e \in spa_spare_avl : e.guid = InuseLabel.guid

\* The duplicate-in-transaction rule.
InuseDupRule ==
    /\ InuseLabel.state # POOL_STATE_SPARE
    /\ InuseLabel.txg = 0
    /\ inuse.crtxg = (IF InuseLabel.crtxg = Absent THEN 0 ELSE InuseLabel.crtxg)

\* C9 as stated: with reason REMOVE a device whose guid is a known spare is
\* not busy whatever the state of its label, and spare_guid is its guid.
C9_RemoveNeverBusy ==
    (inuse.pc = "done" /\ inuse.reason = "REMOVE" /\ InuseDecodes /\ InuseKnownSpare)
        => (~inuse.busy /\ inuse.spare_guid = InuseLabel.guid)

\* C9, amended: with reason REMOVE, on a known spare whose label is complete
\* and not stale and to which the duplicate rule does not apply, spare_guid
\* is the device's guid and the device is busy exactly when its label's
\* state is ACTIVE.
C9_RemoveBusyIffActive ==
    (inuse.pc = "done" /\ inuse.reason = "REMOVE" /\ InuseDecodes /\ InuseKnownSpare
       /\ InuseComplete /\ InuseNotStale /\ ~InuseDupRule)
        => /\ inuse.spare_guid = InuseLabel.guid
           /\ inuse.busy <=> InuseLabel.state = POOL_STATE_ACTIVE

\* REMOVE of a known spare whose label is ACTIVE: busy.
C9_Witness ==
    /\ inuse.pc = "done"
    /\ inuse.reason = "REMOVE"
    /\ InuseDecodes /\ InuseKnownSpare /\ InuseComplete /\ InuseNotStale
    /\ ~InuseDupRule
    /\ InuseLabel.state = POOL_STATE_ACTIVE
    /\ inuse.busy
    /\ inuse.spare_guid = InuseLabel.guid

\* The decision by reason on a known spare.
InuseSpareTable ==
    /\ inuse.spare_guid = InuseLabel.guid
    /\ inuse.reason = "CREATE" => inuse.busy
    /\ inuse.reason = "SPARE" => (inuse.busy <=> InuseLabel.guid \in spa_spares)
    /\ inuse.reason = "REPLACE" =>
          (~inuse.busy <=> (InuseLabel.guid \in spa_spares /\ ~InuseSpareActive))

\* C10 as stated: on a known spare to which the duplicate rule does not
\* apply, spare_guid is the device's guid, CREATE is busy, SPARE is busy iff
\* the spare is on this pool's list, REPLACE is not busy only if it is on
\* this pool's list and active in no pool.
C10_SpareTable ==
    (inuse.pc = "done" /\ InuseDecodes /\ InuseKnownSpare /\ ~InuseDupRule)
        => InuseSpareTable

\* C10, amended: the table holds when, besides, the label is complete (it
\* names its pool and txg unless its state is SPARE) and not stale (its
\* pool is known or the guid is registered as a spare on this host).
C10_SpareTableOfValidLabel ==
    (inuse.pc = "done" /\ InuseDecodes /\ InuseKnownSpare /\ ~InuseDupRule
       /\ InuseComplete /\ InuseNotStale)
        => InuseSpareTable

\* REPLACE by a spare of this pool that is active nowhere: not busy.
C10_Witness ==
    /\ inuse.pc = "done"
    /\ inuse.reason = "REPLACE"
    /\ InuseDecodes /\ InuseKnownSpare /\ ~InuseDupRule
    /\ InuseComplete /\ InuseNotStale
    /\ InuseLabel.guid \in spa_spares
    /\ ~InuseSpareActive
    /\ ~inuse.busy
    /\ inuse.spare_guid = InuseLabel.guid

\* The label's pool is not known to this host.
InuseUnknownPool ==
    InuseLabel.pool_guid \notin {spa_guid} \cup other_pools

\* C11: on a device whose guid is not a known spare, spare_guid is 0; the
\* device is not busy when no label decodes, when the label lacks its state
\* or its guid, when (its state not being SPARE) it lacks its pool guid or
\* its txg, and when its pool is unknown to this host; in every other case
\* it is busy exactly when the duplicate rule applies or its state is ACTIVE.
C11_NotSpareTable ==
    (inuse.pc = "done" /\ ~InuseKnownSpare) =>
        /\ inuse.spare_guid = 0
        /\ IF ~InuseDecodes \/ ~InuseComplete \/ InuseUnknownPool
           THEN ~inuse.busy
           ELSE inuse.busy <=>
                   (InuseDupRule \/ InuseLabel.state = POOL_STATE_ACTIVE)

\* A label of a known pool, not ACTIVE, on a device that is no spare, busy
\* by the duplicate rule alone.
C11_Witness ==
    /\ inuse.pc = "done"
    /\ ~InuseKnownSpare
    /\ InuseDecodes /\ InuseComplete /\ ~InuseUnknownPool
    /\ InuseLabel.state = POOL_STATE_EXPORTED
    /\ InuseDupRule
    /\ inuse.busy
    /\ inuse.spare_guid = 0

(***************************************************************************)
(* Properties of vdev_label_init, checked under SpecInit.                  *)
(***************************************************************************)
\* The leaf steps of the calls so far, oldest first.
InitSteps == 1 .. Len(init.trace)

\* Step i labelled its device for a CREATE and step j, later, is a CREATE of
\* the same transaction on the same device, which no step in between has
\* labelled for another purpose.
InitSameDeviceAgain(i, j) ==
    /\ i < j
    /\ init.trace[i].reason = "CREATE"
    /\ init.trace[i].error = 0
    /\ init.trace[j].reason = "CREATE"
    /\ init.trace[j].crtxg = init.trace[i].crtxg
    /\ init.trace[j].dev = init.trace[i].dev
    /\ \A k \in (i + 1) .. (j - 1) :
        init.trace[k].dev = init.trace[i].dev => init.trace[k].reason = "CREATE"

\* All four labels of the device of the leaf step just taken carry the
\* label of a CREATE: state ACTIVE, pool txg 0, the caller's create txg.
InitLastLeafLabelled ==
    LET e == init.trace[Len(init.trace)]
    IN \A l \in Slots :
        /\ ViewPhys(e.dev, l).ok
        /\ ViewPhys(e.dev, l).state = POOL_STATE_ACTIVE
        /\ ViewPhys(e.dev, l).txg = 0
        /\ ViewPhys(e.dev, l).crtxg = e.crtxg
        /\ ViewPhys(e.dev, l).guid = vdev_guid[e.leaf]

\* C8: a CREATE that succeeds on a leaf leaves the device labelled ACTIVE,
\* txg 0, with the caller's create txg, until a later leaf step submits its
\* own label batch; a later CREATE step with the same create txg on the
\* same device, in the same walk or in a later call, fails with EBUSY, and
\* so does the call it belongs to.
C8_DuplicateInTransaction ==
    /\ (init.trace # <<>>
          /\ init.pc # "write"
          /\ init.trace[Len(init.trace)].reason = "CREATE"
          /\ init.trace[Len(init.trace)].error = 0)
        => InitLastLeafLabelled
    /\ \A i, j \in InitSteps :
        InitSameDeviceAgain(i, j) =>
            /\ init.trace[j].error = EBUSY
            /\ init.trace[j].call = init.calls => (init.pc = "done" /\ init.ret = EBUSY)

\* One walk over a mirror of a device with itself: the first leaf labelled,
\* the second busy.
C8_Witness ==
    /\ init.pc = "done"
    /\ init.ret = EBUSY
    /\ init.calls = 1
    /\ \E i, j \in InitSteps :
        /\ InitSameDeviceAgain(i, j)
        /\ init.trace[i].leaf = "A"
        /\ init.trace[j].leaf = "B"
        /\ init.trace[j].error = EBUSY

\* The leaf steps of the call in progress or just over.
InitCallSteps == {i \in InitSteps : init.trace[i].call = init.calls}

\* Step i found a spare's guid on its device and took it.
InitAdopted(i) ==
    /\ init.trace[i].error = 0
    /\ init.trace[i].reason # "REMOVE"
    /\ init.trace[i].spare_guid # 0

InitSucceeded == init.pc = "done" /\ init.ret = 0 /\ init.calls > 0

InitFailed == init.pc = "done" /\ init.ret # 0

\* C12: when every guid sum was the sum of the guids below the node before
\* the call, after a successful call every leaf that adopted a spare's guid
\* has that guid as its guid and as its sum, and the sum of each of its
\* ancestors is again the sum of the guids below it.
C12_GuidSumPreserved ==
    (InitSucceeded
       /\ \A n \in Nodes : init.pre.guid_sum[n] = GuidSum(init.pre.guid, n))
        => \A i \in InitCallSteps :
              InitAdopted(i) =>
                  LET x == init.trace[i].leaf
                  IN /\ vdev_guid[x] = init.trace[i].spare_guid
                     /\ vdev_guid_sum[x] = init.trace[i].spare_guid
                     /\ \A a \in Ancestors(x) :
                           vdev_guid_sum[a] = GuidSum(vdev_guid, a)

\* A walk over the whole tree in which leaf A took the guid of the spare on
\* its device, and the sums of its parent and of the root moved with it.
C12_Witness ==
    /\ InitSucceeded
    /\ init.vd = Root
    /\ \E i \in InitCallSteps :
          InitAdopted(i) /\ init.trace[i].leaf = "A"
    /\ vdev_guid["A"] = OtherGuid
    /\ vdev_guid_sum["M"] # init.pre.guid_sum["M"]
    /\ vdev_guid_sum[Root] # init.pre.guid_sum[Root]
    /\ vdev_guid_sum[Root] = GuidSum(vdev_guid, Root)

\* C13: when the call returns an error, the guid and the guid sum of every
\* node and the spare registry are what they were when it was entered.
C13_FailureLeavesNoTrace ==
    InitFailed =>
        /\ vdev_guid = init.pre.guid
        /\ vdev_guid_sum = init.pre.guid_sum
        /\ spa_spare_avl = init.pre.avl

\* C14: after a leaf step that succeeded on a leaf not marked as a spare
\* before it, if the reason is SPARE or the leaf's guid is registered as a
\* spare, the leaf is marked as a spare and its guid is in the registry.
C14_SpareRegistered ==
    init.trace # <<>> =>
        LET e == init.trace[Len(init.trace)]
        IN (e.error = 0 /\ ~e.wasspare
              /\ (e.reason = "SPARE" \/ spa_spare_exists(vdev_guid[e.leaf])))
            => /\ vdev_isspare[e.leaf]
               /\ spa_spare_exists(vdev_guid[e.leaf])

\* C15: after a successful CREATE every leaf of the subtree has, in all four
\* labels, the same label of state ACTIVE with the caller's create txg and
\* the leaf's guid, the same boot header, and in every uberblock cell the
\* pool's uberblock with its txg set to 0.
C15_CreateResult ==
    (InitSucceeded /\ init.reason = "CREATE") =>
        \A x \in LeavesUnder(init.vd) : \A l \in Slots :
            LET d == devOf[x]
            IN /\ ViewPhys(d, l) = ViewPhys(d, 0)
               /\ ViewPhys(d, l).ok
               /\ ViewPhys(d, l).state = POOL_STATE_ACTIVE
               /\ ViewPhys(d, l).crtxg = init.crtxg
               /\ ViewPhys(d, l).guid = vdev_guid[x]
               /\ ViewBoot(d, l) = VdevBootHeader
               /\ \A n \in Cells :
                     /\ ViewUb(d, l, n) = [spa_uberblock EXCEPT !.txg = 0]
                     /\ ViewUb(d, l, n).ts = spa_uberblock.ts

\* A CREATE over the whole tree, of a pool whose uberblock is past txg 0.
C15_Witness ==
    /\ InitSucceeded
    /\ init.reason = "CREATE"
    /\ init.vd = Root
    /\ init.calls = 1
    /\ spa_uberblock.txg > 0
    /\ ViewPhys(devOf["C"], 3).guid = vdev_guid["C"]
    /\ ViewUb(devOf["B"], 2, 1).txg = 0
    /\ ViewUb(devOf["B"], 2, 1).magic = UBERBLOCK_MAGIC

\* The order the leaves of the tree are met in, children first to last.
InitChildOrder == <<"A", "B", "C">>

InitPosition(x) == CHOOSE p \in 1 .. Len(InitChildOrder) : InitChildOrder[p] = x

\* The write cache of device d holds a write of vdev_label_init.
InitDevWritten(d) ==
    \E l \in Slots :
        \/ c_phys[d][l] # {}
        \/ c_boot[d][l] # {}
        \/ \E n \in Cells : c_ub[d][l][n] # {}

\* Step i got as far as submitting its label batch.
InitStepWrote(i) ==
    LET e == init.trace[i]
    IN /\ e.leaf \notin dead
       /\ packErr[e.leaf] = 0
       /\ e.error \in {0, EIO}

\* C25: the leaf steps of a call follow the child order without a gap from
\* the first leaf of the subtree; a step that fails is the last step of the
\* call, the call is over and returns the error of that step, which is EIO
\* for a dead leaf, EBUSY, ENAMETOOLONG or EINVAL for a label that does not
\* pack, or EIO for a failed write; a call that returns 0 has taken a step
\* for every leaf; and a device holds a write of the call only if a step on
\* that device submitted its batch or is waiting for it, so that none went
\* to a leaf that failed as dead, busy or on packing, nor to a leaf after
\* the failing one; a leaf is probed or written only after every step
\* before it in the call has returned 0.
C25_SequentialAndEager ==
    init.calls > 0 =>
        LET first == Len(init.trace) - Cardinality(InitCallSteps) + 1
            leaves == {x \in Leaves : x \in LeavesUnder(init.vd)}
            start == CHOOSE p \in 1 .. Len(InitChildOrder) :
                        /\ InitChildOrder[p] \in leaves
                        /\ \A q \in 1 .. (p - 1) : InitChildOrder[q] \notin leaves
        IN /\ \A i \in InitCallSteps :
                /\ init.trace[i].leaf \in leaves
                /\ InitPosition(init.trace[i].leaf) = start + (i - first)
           /\ \A i \in InitSteps :
                LET e == init.trace[i] IN
                /\ e.error # 0 =>
                      /\ i = Len(init.trace)
                      /\ init.pc = "done"
                      /\ init.ret = e.error
                      /\ e.error \in {EIO, EBUSY, ENAMETOOLONG, EINVAL}
                /\ e.leaf \in dead => e.error = EIO
                /\ (e.leaf \notin dead /\ e.error \in {ENAMETOOLONG, EINVAL})
                      => packErr[e.leaf] # 0
                /\ e.error = ENAMETOOLONG => packErr[e.leaf] = EFAULT
           /\ (init.pc = "done" /\ init.ret = 0) =>
                Cardinality(InitCallSteps) = Cardinality(leaves)
           /\ init.pc = "walk" =>
                /\ Cardinality(InitCallSteps) < Cardinality(leaves)
                /\ \A i \in InitCallSteps : init.trace[i].error = 0
           /\ \A d \in Devices :
                InitDevWritten(d) =>
                    \/ \E i \in InitSteps :
                          init.trace[i].dev = d /\ InitStepWrote(i)
                    \/ init.pc = "write" /\ devOf[Head(init.todo)] = d
           /\ init.pc \in {"probe", "assert", "write"} =>
                /\ init.todo # <<>>
                /\ Head(init.todo) \notin dead
                /\ \A i \in InitCallSteps : init.trace[i].error = 0
           /\ init.pc = "write" => packErr[Head(init.todo)] = 0

\* A walk over the whole tree labelled leaf A, then failed on leaf B, which
\* is dead: the call returned EIO, the device of B and the device of C,
\* which comes after it, hold no write.
C25_Witness ==
    /\ init.pc = "done"
    /\ init.vd = Root
    /\ init.calls = 1
    /\ Len(init.trace) = 2
    /\ init.trace[1].leaf = "A"
    /\ init.trace[1].error = 0
    /\ init.trace[2].leaf = "B"
    /\ "B" \in dead
    /\ init.ret = EIO
    /\ InitDevWritten(devOf["A"])
    /\ ~InitDevWritten(devOf["B"])
    /\ ~InitDevWritten(devOf["C"])

(***************************************************************************)
(* Properties of vdev_config_sync, checked under SpecSync.                 *)
(***************************************************************************)
SyncEvents == Range(hist)

\* The position of the first uberblock batch among the I/O issued so far,
\* or the position the next batch would take.
FirstUberblock ==
    IF "uberblock" \in SyncEvents
    THEN CHOOSE i \in 1 .. Len(hist) :
            hist[i] = "uberblock" /\ \A j \in 1 .. (i - 1) : hist[j] # "uberblock"
    ELSE Len(hist) + 1

SyncLiveDirtyLeaves ==
    {x \in LeavesUnderAll(spa_dirty_list) : x \notin dead}

\* C3: an uberblock batch is submitted only after the Phase-0 flush of the
\* clean list was issued and waited for, so that no block written in the
\* txg is still in a write cache, and after the even-label passes drained
\* and the flush of every dirty vdev that follows them was waited for, so
\* that no even label of a dirty vdev is still in a write cache.
C3_UberblockAfterBarriers ==
    (sync.pc = "uberblock" \/ "uberblock" \in SyncEvents) =>
        /\ FirstUberblock >= 4
        /\ hist[1] = "flush0"
        /\ \A i \in 2 .. (FirstUberblock - 2) : hist[i] = "even"
        /\ hist[FirstUberblock - 1] = "flush2"
        /\ c_data \cap {devOf[x] : x \in UNION {LeavesUnder(vd) : vd \in sync.clean}} = {}
        /\ sync.pc = "uberblock" =>
              \A x \in SyncLiveDirtyLeaves : \A l \in {0, 2} :
                  c_phys[devOf[x]][l] = {}

\* The uberblocks went out under a vdev that is not the only dirty one,
\* after even labels of txg reached the platter of a leaf outside it.
C3_Witness ==
    /\ sync.pc = "flush4"
    /\ sync.uvd = "C"
    /\ sync.clean = Tops
    /\ sync.ub_leaves = {"C"}
    /\ sync.txg > pre.spa_ub.txg
    /\ phys[devOf["A"]][0].txg = sync.txg
    /\ phys[devOf["A"]][1].txg < sync.txg

\* C2: when an odd-label write is submitted, every leaf that received the
\* new uberblock in this call, under top_vdev or under the root, has had its
\* write cache flushed since: no uberblock is still in a write cache.
C2_OddAfterUberblockFlush ==
    ("odd" \in SyncEvents /\ "flush6" \notin SyncEvents
       /\ LabelSubmitted(spa_dirty_list) # {})
        => \A d \in Devices, l \in Slots, n \in Cells : c_ub[d][l][n] = {}

\* What the disks hold when the call returns, against what they held when
\* it was entered.
SyncFailed == sync.pc = "done" /\ sync.ret # 0

NewUberblockOnDisk ==
    \E d \in Devices, l \in Slots, n \in Cells : ViewUb(d, l, n).txg = sync.txg

OddLabelsUnchanged ==
    \A d \in Devices : \A l \in {1, 3} : ViewPhys(d, l) = PhysAtStart[d][l]

EvenLabelsCarryTxg ==
    \A x \in SyncLiveDirtyLeaves : \A l \in {0, 2} :
        ViewPhys(devOf[x], l).txg = sync.txg

EvenLabelsOldOrNew ==
    \A x \in Leaves : \A l \in {0, 2} :
        \/ ViewPhys(devOf[x], l) = PhysAtStart[devOf[x]][l]
        \/ ViewPhys(devOf[x], l) = spa_config_generate(x, sync.txg)

OldUberblockElected == ~NewUberblockOnDisk /\ LoadBest = pre.spa_ub

NewUberblockElected == LoadBest = spa_uberblock /\ LoadBest.txg = sync.txg

\* C6 as stated: a non-zero return leaves either no uberblock of txg on any
\* leaf, the old uberblock elected and every odd label unchanged, or the new
\* uberblock elected and the even labels of the dirty vdevs at txg.
C6_FailureLeavesOneOfTwo ==
    SyncFailed =>
        \/ OldUberblockElected /\ OddLabelsUnchanged
        \/ NewUberblockElected /\ EvenLabelsCarryTxg

\* C6, amended: a non-zero return leaves every odd label unchanged and every
\* even label either unchanged or at txg, and either no uberblock of txg is
\* on any leaf and the old one is elected, or the new one is elected; and
\* when no uberblock write of the call completed, the call returns non-zero.
C6_FailureKeepsOddLabels ==
    /\ SyncFailed =>
          /\ OddLabelsUnchanged
          /\ EvenLabelsOldOrNew
          /\ OldUberblockElected \/ NewUberblockElected
    /\ (sync.pc = "done" /\ "uberblock" \in SyncEvents /\ sync.ub_leaves = {})
          => sync.ret # 0

\* A failed call that left the new uberblock on a leaf whose writes earn no
\* credit, while a dirty leaf kept its old even labels.
C6_Witness ==
    /\ SyncFailed
    /\ sync.txg > pre.spa_ub.txg
    /\ NewUberblockElected
    /\ OddLabelsUnchanged
    /\ ~EvenLabelsCarryTxg
    /\ \E x \in Leaves : ViewPhys(devOf[x], 0).txg = sync.txg

\* The call went past its entry tests and has returned.
SyncRanAndReturned == sync.pc = "done" /\ hist # <<>>

\* A vdev that was dirty when the call was entered has a live leaf, the
\* uberblocks go under the root, and no write of the call failed.
SyncDeadLeavesOnly ==
    /\ SyncRanAndReturned
    /\ sync.uvd = Root
    /\ ~sync.faulted
    /\ \E x \in LeavesUnderAll(pre.dirty) : x \notin dead

\* Success; every live leaf of a dirty vdev has its four labels and the
\* cell txg mod N of its four rings at txg; nothing was sent to a dead leaf,
\* whose device holds what it held.
SyncLiveLeavesAtTxg ==
    /\ sync.ret = 0
    /\ \A x \in SyncLiveDirtyLeaves : \A l \in Slots :
          /\ ViewPhys(devOf[x], l) = spa_config_generate(x, sync.txg)
          /\ ViewUb(devOf[x], l, sync.txg % VDEV_UBERBLOCK_COUNT).txg = sync.txg
    /\ \A x \in dead :
          /\ x \notin sync.lab_ok.even \cup sync.lab_ok.odd
          /\ x \notin LeavesOfWrites(sync.batch.submitted)
          /\ \A l \in Slots :
                /\ ViewPhys(devOf[x], l) = PhysAtStart[devOf[x]][l]
                /\ \A n \in Cells : ViewUb(devOf[x], l, n) = StartRing[n]

\* C16 as stated: with a live leaf under a dirty vdev and no failing write,
\* the sync under the root succeeds whatever leaves are dead, every live
\* leaf of a dirty vdev has txg in its four labels and the uberblock of txg
\* in cell txg mod N of its four rings, and no dead leaf was written to.
C16_DeadLeavesTolerated == SyncDeadLeavesOnly => SyncLiveLeavesAtTxg

\* C16, amended: the same, when besides some live leaf of the tree is under
\* a top-level vdev with a metaslab array, so that an uberblock write earns
\* credit.
C16_DeadLeavesToleratedIfCredited ==
    (SyncDeadLeavesOnly
       /\ \E x \in Leaves : x \notin dead /\ vdev_ms_array[vdev_top(x)] # 0)
        => SyncLiveLeavesAtTxg

\* A mirror with one side dead synced to a new txg under the root.
C16_Witness ==
    /\ SyncDeadLeavesOnly
    /\ dead = {"B"}
    /\ "M" \in Range(pre.dirty)
    /\ sync.txg > pre.spa_ub.txg
    /\ sync.ret = 0
    /\ ViewPhys(devOf["A"], 3).txg = sync.txg
    /\ ViewPhys(devOf["B"], 0).txg < sync.txg

\* C17: the even pass runs at most twice; a second time only after a first
\* pass that ended with no good write, with the fuse burnt and every
\* top-level vdev dirty; after a first pass with no good write the second
\* follows; and when the second too ends with none the call returns the
\* last error of that pass, not 0, having issued nothing after it.
C17_RetryFuse ==
    /\ Len(sync.even_gw) <= 2
    /\ (Len(sync.even_gw) >= 1 /\ sync.even_gw[1] = 0) =>
          /\ ~sync.retry_avail
          /\ Tops \subseteq Range(spa_dirty_list)
          /\ Len(sync.even_gw) = 1 => sync.pc \in {"even", "crashed"}
    /\ Len(sync.even_gw) = 2 => sync.even_gw[1] = 0
    /\ (Len(sync.even_gw) = 2 /\ sync.even_gw[2] = 0) =>
          /\ sync.pc \in {"done", "crashed"}
          /\ sync.ret = sync.last_error
          /\ sync.ret \in {EIO, ENODEV}
          /\ hist = <<"flush0", "even", "even">>

\* Both passes ended with no good write: the first over a dirty vdev whose
\* leaves are dead, the second over every vdev, with failing writes to the
\* live leaves, and last over the vdev of the dead leaves.
C17_Witness ==
    /\ sync.pc = "done"
    /\ Len(sync.even_gw) = 2
    /\ sync.even_gw[2] = 0
    /\ sync.ret = ENODEV
    /\ sync.faulted
    /\ Len(pre.dirty) = 1
    /\ Len(spa_dirty_list) = 2
    /\ sync.lab_ok.even = {}

\* C18: when no odd label write completes on any dirty vdev and no dirty
\* vdev is a log, the call returns the error of the odd pass and does not
\* issue the last flush.
C18_OddFailureSurfaced ==
    ("odd" \in SyncEvents /\ sync.pc \in {"flush6", "done"}
       /\ sync.lab_ok.odd = {}
       /\ \A vd \in Range(spa_dirty_list) : ~vdev_islog[vd])
        => /\ sync.pc = "done"
           /\ sync.ret # 0
           /\ "flush6" \notin SyncEvents

\* C19: when an uberblock batch is submitted, an even label of txg was
\* written without error to some leaf earlier in the call.
C19_EvenLabelBeforeUberblock ==
    (sync.pc \in {"uberblock", "uberblock_root"} \/ "uberblock" \in SyncEvents)
        => sync.lab_ok.even # {}

\* The writes of the last batch that earn credit.
BatchCredited ==
    {w \in sync.batch.written : vdev_ms_array[vdev_top(w[1])] # 0}

\* C20: a batch returns 0 exactly when one of its writes completed without
\* error on a leaf whose top-level vdev has a metaslab array; otherwise it
\* returns an error, which is EIO when no write of the batch failed, as
\* when every leaf is dead and none was submitted.
C20_BatchOutcome ==
    "uberblock" \in SyncEvents =>
        /\ sync.batch.error = 0 <=> BatchCredited # {}
        /\ sync.batch.written \subseteq sync.batch.submitted
        /\ \A w \in sync.batch.submitted : w[1] \notin dead
        /\ (BatchCredited = {} /\ sync.batch.written = sync.batch.submitted)
              => sync.batch.error = EIO

\* A batch under a vdev that has no metaslab array yet: its writes
\* completed, and it returned EIO.
C20_Witness ==
    /\ "uberblock" \in SyncEvents
    /\ sync.batch.vd = "C"
    /\ sync.batch.written # {}
    /\ sync.batch.written = sync.batch.submitted
    /\ sync.batch.error = EIO

\* The uberblock batches run so far in the call.
UberblockBatches == {i \in 1 .. Len(hist) : hist[i] = "uberblock"}

\* C21: the uberblock batch is run at most twice; a second run is pending or
\* was made exactly when the first, under top_vdev, failed and top_vdev is
\* not the root, and it is made under the root; and when the last batch run
\* failed the call has returned its error, the batch is the last I/O of the
\* call, and every odd label holds what it held on entry.
C21_UberblockRetryAndAbort ==
    LET runs == Cardinality(UberblockBatches) IN
    /\ runs <= 2
    /\ sync.pc = "uberblock_root" =>
          /\ runs = 1
          /\ sync.batch.vd = sync.uvd
          /\ sync.batch.error # 0
          /\ sync.uvd # Root
    /\ (runs = 1 /\ sync.pc # "uberblock_root") =>
          /\ sync.batch.vd = sync.uvd
          /\ sync.batch.error = 0 \/ sync.uvd = Root
    /\ runs = 2 => (sync.batch.vd = Root /\ sync.uvd # Root)
    /\ (runs >= 1 /\ sync.pc # "uberblock_root" /\ sync.batch.error # 0) =>
          /\ sync.pc = "done"
          /\ sync.ret = sync.batch.error
          /\ hist[Len(hist)] = "uberblock"
          /\ "odd" \notin SyncEvents
          /\ OddLabelsUnchanged

\* The batch under a top-level vdev failed, the batch under the root failed
\* too, and the call returned the error with even labels of the txg written.
C21_Witness ==
    /\ sync.pc = "done"
    /\ Cardinality(UberblockBatches) = 2
    /\ sync.uvd = "C"
    /\ sync.batch.vd = Root
    /\ sync.batch.submitted # {}
    /\ sync.ret = EIO
    /\ sync.txg > pre.spa_ub.txg
    /\ \E x \in Leaves : ViewPhys(devOf[x], 0).txg = sync.txg
    /\ OddLabelsUnchanged

\* The leaves under the trees the call has run an uberblock batch on: under
\* top_vdev, and under the root once the batch was run again.
SyncedLeaves ==
    IF UberblockBatches = {} THEN {}
    ELSE IF Cardinality(UberblockBatches) = 1 THEN LeavesUnder(sync.uvd)
    ELSE Leaves

\* C22: the only uberblock cells the call changes, in the write caches or
\* on the platters, are cell (txg mod N) of the slots of live leaves under a
\* tree it ran a batch on, and they hold the pool's uberblock; every other
\* cell holds what it held on entry.  A batch submits one write to each of
\* the four slots of every live leaf under its tree, and every write that
\* completed left the uberblock in cell (txg mod N) of its slot.
C22_UberblockRingFrame ==
    /\ \A x \in Leaves : \A l \in Slots : \A n \in Cells :
          LET d == devOf[x] IN
          (ViewUb(d, l, n) # StartRing[n] \/ ubring[d][l][n] # StartRing[n]) =>
              /\ n = sync.txg % VDEV_UBERBLOCK_COUNT
              /\ x \notin dead
              /\ x \in SyncedLeaves
              /\ ViewUb(d, l, n) = spa_uberblock
              /\ ubring[d][l][n] \in {StartRing[n], spa_uberblock}
    /\ "uberblock" \in SyncEvents =>
          /\ sync.batch.submitted =
                {<<x, l>> : x \in LeavesUnder(sync.batch.vd) \ dead, l \in Slots}
          /\ \A w \in sync.batch.written :
                ViewUb(devOf[w[1]], w[2], sync.txg % VDEV_UBERBLOCK_COUNT)
                    = spa_uberblock

\* A sync of a later txg under the mirror with one side dead returned: the
\* live side holds the new uberblock in cell (txg mod N) of its four slots
\* and the older uberblock in the other cell, and the rings of the dead side
\* and of the leaf outside the mirror are as they were.
C22_Witness ==
    /\ sync.pc = "done"
    /\ sync.ret = 0
    /\ sync.uvd = "M"
    /\ dead = {"B"}
    /\ sync.txg = StartTxg + 1
    /\ spa_uberblock.txg = sync.txg
    /\ \A l \in Slots :
          /\ ubring[devOf["A"]][l][sync.txg % VDEV_UBERBLOCK_COUNT] = spa_uberblock
          /\ ubring[devOf["A"]][l][StartTxg % VDEV_UBERBLOCK_COUNT].txg = StartTxg
          /\ ubring[devOf["B"]][l] = StartRing
          /\ ubring[devOf["C"]][l] = StartRing

(***************************************************************************)
(* Properties of the entry of vdev_config_sync, checked under SpecEntry.   *)
(***************************************************************************)
EntryCalled == sync.pc # "idle"

\* The three conditions of the shortcut, on the values the call was entered
\* with.
EntryNothing ==
    /\ pre.spa_ub.txg < sync.txg
    /\ ~snap.changed
    /\ pre.dirty = <<>>

\* No I/O was submitted: no flush, no label or uberblock write.
EntryNoIo ==
    /\ hist = <<>>
    /\ PhysView = PhysAtStart
    /\ UbView = [d \in Devices |-> [l \in Slots |-> StartRing]]
    /\ \A d \in Devices : \A l \in Slots :
          c_phys[d][l] = {} /\ \A n \in Cells : c_ub[d][l][n] = {}
    /\ c_data = FlushDevs(UNION {LeavesUnder(vd) : vd \in sync.clean})

\* C23: when ub_txg < txg, uberblock_update reports no change and the dirty
\* list is empty, the call returns 0 without any I/O and the dirty list is
\* still empty; in every other case with txg not past the freeze point the
\* call goes on to the Phase-0 flush, its first I/O.
C23_NothingToSync ==
    EntryCalled =>
        /\ EntryNothing =>
              /\ sync.pc = "done"
              /\ sync.ret = 0
              /\ EntryNoIo
              /\ spa_dirty_list = <<>>
        /\ (~EntryNothing /\ ~snap.frozen) =>
              \/ sync.pc = "phase0" /\ EntryNoIo
              \/ hist # <<>> /\ hist[1] = "flush0"

\* A resync of the txg the uberblock is at, with no change reported and
\* nothing dirty, went through the Phase-0 flush and on to the labels.
C23_Witness ==
    /\ EntryCalled
    /\ pre.spa_ub.txg = sync.txg
    /\ ~snap.changed
    /\ ~snap.frozen
    /\ pre.dirty = <<>>
    /\ hist # <<>>
    /\ hist[1] = "flush0"
    /\ c_data = {}
    /\ "even" \in SyncEvents

\* C26: once the call is at the uberblock phase the pool's uberblock has
\* ub_txg = txg, every write of a batch that completed left an uberblock of
\* exactly txg in cell (txg mod N) of its slot, and every cell that no
\* longer holds what it held on entry holds an uberblock of exactly txg.
C26_UberblockCarriesTxg ==
    (sync.pc \in {"uberblock", "uberblock_root"} \/ "uberblock" \in SyncEvents) =>
        /\ pre.spa_ub.txg <= sync.txg
        /\ spa_uberblock.txg = sync.txg
        /\ \A w \in sync.batch.written :
              ViewUb(devOf[w[1]], w[2], sync.txg % VDEV_UBERBLOCK_COUNT).txg
                  = sync.txg
        /\ \A d \in Devices : \A l \in Slots : \A n \in Cells :
              ViewUb(d, l, n) # StartRing[n] => ViewUb(d, l, n).txg = sync.txg

\* Entered with ub_txg < txg, no change reported and a dirty vdev, the call
\* returned 0 and an uberblock of txg is on a platter in cell (txg mod N).
C26_Witness ==
    /\ sync.pc = "done"
    /\ sync.ret = 0
    /\ pre.spa_ub.txg < sync.txg
    /\ ~snap.changed
    /\ pre.dirty # <<>>
    /\ sync.batch.written # {}
    /\ \E d \in Devices :
          /\ ubring[d][0][sync.txg % VDEV_UBERBLOCK_COUNT].txg = sync.txg
          /\ StartRing[sync.txg % VDEV_UBERBLOCK_COUNT].txg # sync.txg

(***************************************************************************)
(* Properties of a sequence of syncs, checked under SpecSeq.               *)
(***************************************************************************)
\* The greatest txg of which an uberblock write has completed on a leaf.
SeqGreatestWritten ==
    IF sync.ub_leaves # {} /\ sync.txg > snap.maxtxg THEN sync.txg
    ELSE snap.maxtxg

\* The txgs the uberblocks in the cells of the live leaves carry.
SeqTxgsOnLiveLeaves ==
    {ViewUb(devOf[x], l, n).txg : x \in Leaves \ dead, l \in Slots, n \in Cells}

\* C27: at every point of a sequence of syncs of non-decreasing txg, the
\* uberblock vdev_uberblock_load elects over the root carries the greatest
\* txg of which an uberblock write has completed on a leaf, which is the
\* greatest txg any cell of a live leaf holds; and no cell holds an
\* uberblock of a lower txg than it held when the last call returned.
C27_NewestRootWins ==
    snap.mode = "seq" =>
        /\ LoadBest.txg = SeqGreatestWritten
        /\ \A t \in SeqTxgsOnLiveLeaves : t <= LoadBest.txg
        /\ LoadBest.magic = UBERBLOCK_MAGIC
        /\ pre.spa_ub.txg <= sync.txg \/ sync.txg = 0
        /\ \A d \in Devices : \A l \in Slots : \A n \in Cells :
              ViewUb(d, l, n).txg >= snap.ub[d][l][n].txg

\* After syncs of three txgs, the last of which wrote its uberblock to slot
\* 0 of one leaf only, in the cell the first had used: the election returns
\* the last txg, and that leaf still holds the txg in between.
C27_Witness ==
    /\ snap.mode = "seq"
    /\ sync.pc = "done"
    /\ sync.txg = StartTxg + 3
    /\ sync.ret = 0
    /\ LoadBest.txg = StartTxg + 3
    /\ snap.maxtxg = StartTxg + 2
    /\ ViewUb(devOf["A"], 0, UberblockCell(StartTxg + 3)).txg = StartTxg + 3
    /\ ViewUb(devOf["A"], 1, UberblockCell(StartTxg + 3)).txg = StartTxg + 1
    /\ ViewUb(devOf["A"], 0, UberblockCell(StartTxg + 2)).txg = StartTxg + 2
    /\ \A l \in Slots :
          ViewUb(devOf["C"], l, UberblockCell(StartTxg + 3)).txg < StartTxg + 3

(***************************************************************************)
(* Crash consistency, checked under SpecCrash.                             *)
(***************************************************************************)
\* C1: after a loss of power at any point of vdev_config_sync, every live
\* leaf of a dirty vdev has a label, in a slot of one parity or the other,
\* that decodes and whose txg is not past the txg of the uberblock the pool
\* is reopened with.
C1_CrashConsistency ==
    sync.pc = "crashed" =>
        \A x \in SyncLiveDirtyLeaves :
            \E l \in Slots :
                /\ phys[devOf[x]][l].ok
                /\ phys[devOf[x]][l].txg <= LoadBest.txg

(***************************************************************************)
(* Idempotence on disk, checked under SpecIdem.                            *)
(***************************************************************************)
\* Both experiments are over: the reference run succeeded, and so did the
\* second run of the pair.
IdemBothDone ==
    /\ snap.mode = "second"
    /\ snap.ret = 0
    /\ sync.pc = "done"
    /\ sync.ret = 0

\* C5 as stated: after the two runs every label and every uberblock cell
\* holds what it holds after the single run.
C5_TwiceIsOnce ==
    IdemBothDone => (PhysView = snap.phys /\ UbView = snap.ub)

\* C5, amended: after the two runs every label and every uberblock cell the
\* single run wrote holds what it holds after the single run, and every
\* other holds what it held at the start or what the sync of txg writes
\* there, its leaf's label of txg or the uberblock of txg.
C5_TwiceCoversOnce ==
    IdemBothDone =>
        /\ \A x \in Leaves : \A l \in Slots :
            LET d == devOf[x] IN
            /\ snap.phys[d][l] # PhysAtStart[d][l]
                  => ViewPhys(d, l) = snap.phys[d][l]
            /\ ViewPhys(d, l) \in
                  {PhysAtStart[d][l], spa_config_generate(x, sync.txg)}
        /\ \A d \in Devices : \A l \in Slots : \A n \in Cells :
            /\ snap.ub[d][l][n] # StartRing[n]
                  => ViewUb(d, l, n) = snap.ub[d][l][n]
            /\ ViewUb(d, l, n) \in {StartRing[n], spa_uberblock}

\* The first run failed after its retry dirtied every vdev, and the pair
\* wrote labels the single run left alone.
C5_Witness ==
    /\ IdemBothDone
    /\ PhysView # snap.phys
    /\ \E d \in Devices : snap.phys[d][0] # PhysAtStart[d][0]
    /\ \E d \in Devices, n \in Cells : snap.ub[d][0][n] # StartRing[n]

====
